---------------------------- MODULE Spec2Model ----------------------------
(***************************************************************************)
(* PharmaTrack: the orchestrator (src/orquestador/server.js) and the       *)
(* inventory ledger (InventarioService.java).                              *)
(*                                                                         *)
(* One node.js process serves the orchestrator: the code between two       *)
(* awaits runs without interruption, and every await on a downstream http  *)
(* call is a point where another request may run.  Each action below is    *)
(* one such uninterrupted stretch of a handler.  A downstream call and the  *)
(* continuation that receives its answer are one action: the ledger is     *)
(* read or changed at the moment the answer is taken up.                   *)
(*                                                                         *)
(* POST /reserva-stock, GET /readyz, GET /disponibilidad, the two           *)
(* pre-validation handlers and the caches are the code of server.js; the   *)
(* dispensation saga (POST /dispensar) follows section 4.4 of spec.md and  *)
(* reuses the code's idempotency gate, verification loop and ledger.       *)
(*                                                                         *)
(* The handlers that fan out with Promise.all (readyz, pre-validation)     *)
(* send all their calls in one stretch; the answers arrive in any order.   *)
(*                                                                         *)
(* The specifications of the orchestrator take one call to the ledger as   *)
(* one step.  SpecInventario looks inside the ledger: a transaction of     *)
(* InventarioService reads the stock row, and writes it back in a later    *)
(* step, with other transactions running in between.                       *)
(*                                                                         *)
(* Time is counted in units of 2 minutes (120000 ms): RESERVA_TTL_MS is 1  *)
(* unit and IDEM_TTL_MS is 5 units.                                        *)
(***************************************************************************)
EXTENDS Integers, Sequences, FiniteSets, TLC

\* ------------------------------------------------------------------ bounds
MaxClock == 6
MaxFaults == 2

\* ------------------------------------------------------- program constants
IDEM_TTL_MS == 5
RESERVA_TTL_MS == 1

\* -------------------------------------------------------------- the world
Reqs == {"a", "b"}
Keys == {"k1"}
Sucursales == {1, 2}
Productos == {"PROD-1", "PROD-2", "PROD-3"}

Linea(p, c) == [id_producto |-> p, cantidad |-> c]

\* The prescriptions the prescription service holds (receta + receta_detalle).
Recetas ==
  [ R0 |-> [id_receta |-> "R0", id_sucursal |-> 1, detalle |-> <<>>],
    R1 |-> [id_receta |-> "R1", id_sucursal |-> 1,
            detalle |-> <<Linea("PROD-1", 3)>>],
    R2 |-> [id_receta |-> "R2", id_sucursal |-> 1,
            detalle |-> <<Linea("PROD-1", 3), Linea("PROD-2", 10)>>],
    R3 |-> [id_receta |-> "R3", id_sucursal |-> 1,
            detalle |-> <<Linea("PROD-1", 3), Linea("PROD-2", 2)>>],
    R4 |-> [id_receta |-> "R4", id_sucursal |-> 1,
            detalle |-> <<Linea("PROD-2", 1)>>],
    R5 |-> [id_receta |-> "R5", id_sucursal |-> 1,
            detalle |-> <<Linea("PROD-1", 1), Linea("PROD-2", 1),
                          Linea("PROD-3", 1)>>] ]

RecetaIds == DOMAIN Recetas

\* The stock table at start: (id_sucursal, id_producto) -> stock_actual.
\* Sucursal 2 has no row for PROD-1, and more PROD-2 than sucursal 1.
StockInicial ==
  (<<1, "PROD-1">> :> 5) @@ (<<1, "PROD-2">> :> 2) @@ (<<2, "PROD-2">> :> 10)
    @@ (<<1, "PROD-3">> :> 1)

VARIABLES now, memIdem, memReservas, stock, req, faults

vars == <<now, memIdem, memReservas, stock, req, faults>>

\* ------------------------------------------------------------ map helpers
\* Map.set(k, v)
MapSet(m, k, v) == [x \in (DOMAIN m) \cup {k} |-> IF x = k THEN v ELSE m[x]]

\* Map.delete(k)
MapDelete(m, k) == [x \in (DOMAIN m) \ {k} |-> m[x]]

\* --------------------------------------------------- idempotency cache
\* The expiry test with >= for >: an entry aged exactly the TTL is expired.
IdemExpired_AtTTL(it, t) == t - it.ts >= IDEM_TTL_MS

\* Date.now() - it.ts > IDEM_TTL_MS
IdemExpired(it, t) == t - it.ts > IDEM_TTL_MS

\* What idemGet(k) returns at time t: the set holding it.result, or {} for null.
IdemGetResult(m, k, t) ==
  IF k \notin DOMAIN m THEN {}
  ELSE IF IdemExpired(m[k], t) THEN {}
  ELSE {m[k].result}

\* A lookup that renews the entry it finds alive (sliding expiry).
IdemGetMap_Renueva(m, k, t) ==
  IF k \notin DOMAIN m THEN m
  ELSE IF IdemExpired(m[k], t) THEN MapDelete(m, k)
  ELSE MapSet(m, k, [ts |-> t, result |-> m[k].result])

\* What idemGet(k) leaves in memIdem: an expired entry is deleted.
IdemGetMap(m, k, t) ==
  IF k \in DOMAIN m /\ IdemExpired(m[k], t) THEN MapDelete(m, k) ELSE m

\* idemSet(k, v) at time t.
IdemSet(m, k, v, t) == MapSet(m, k, [ts |-> t, result |-> v])

\* ------------------------------------------------------ inventory ledger
Row(pk, n) == [id_sucursal |-> pk[1], id_producto |-> pk[2], stock_actual |-> n]

\* consultarStock(idProducto, idSucursal, null) with both given: findById(pk).
ConsultarStock(st, idProducto, idSucursal) ==
  LET pk == <<idSucursal, idProducto>>
  IN IF pk \in DOMAIN st THEN <<Row(pk, st[pk])>> ELSE <<>>

Movimiento(suc, prod, tipo, cant) ==
  [id_sucursal |-> suc, id_producto |-> prod, tipo_movimiento |-> tipo,
   cantidad |-> cant]

\* String.toUpperCase(Locale.ROOT) on the type names clients send.
Upper(s) ==
  CASE s = "entrada" -> "ENTRADA"
    [] s = "egreso" -> "EGRESO"
    [] OTHER -> s

\* int delta = tipo.equals("ENTRADA") ? cantidad : -cantidad
Delta(tipo, cantidad) == IF tipo = "ENTRADA" THEN cantidad ELSE -cantidad

\* registrarMovimiento with EGRESO counted like ENTRADA (delta never negated).
RegistrarMovimiento_SinSigno(st, m) ==
  LET pk == <<m.id_sucursal, m.id_producto>>
      actual == IF pk \in DOMAIN st THEN st[pk] ELSE 0
  IN IF pk \notin DOMAIN st /\ m.tipo_movimiento # "ENTRADA"
       THEN [http |-> 404, stock |-> st]
       ELSE [http |-> 201, stock |-> MapSet(st, pk, actual + m.cantidad)]

\* registrarMovimiento that clamps at zero (GREATEST(0, ...)) instead of
\* rejecting an egress larger than the stock.
RegistrarMovimiento_Clamp(st, m) ==
  LET pk == <<m.id_sucursal, m.id_producto>>
      delta == IF m.tipo_movimiento = "ENTRADA" THEN m.cantidad ELSE -m.cantidad
      actual == IF pk \in DOMAIN st THEN st[pk] ELSE 0
      nuevo == IF actual + delta < 0 THEN 0 ELSE actual + delta
  IN IF pk \notin DOMAIN st /\ m.tipo_movimiento # "ENTRADA"
       THEN [http |-> 404, stock |-> st]
       ELSE [http |-> 201, stock |-> MapSet(st, pk, nuevo)]

\* registrarMovimiento(m): the outcome and the stock table it leaves.
\* http is the status the controller answers (201, or 400/404 through
\* GlobalExceptionHandler).
RegistrarMovimiento(st, m) ==
  LET pk == <<m.id_sucursal, m.id_producto>>
      tipo == Upper(m.tipo_movimiento)
      delta == Delta(tipo, m.cantidad)
      actual == IF pk \in DOMAIN st THEN st[pk] ELSE 0
      nuevo == actual + delta
  IN IF m.id_producto = "" \/ m.tipo_movimiento = ""
       THEN [http |-> 400, stock |-> st]
     ELSE IF tipo \notin {"ENTRADA", "EGRESO"} THEN [http |-> 400, stock |-> st]
     ELSE IF m.cantidad <= 0 THEN [http |-> 400, stock |-> st]
     ELSE IF pk \notin DOMAIN st /\ tipo # "ENTRADA"
       THEN [http |-> 404, stock |-> st]
     ELSE IF nuevo < 0 THEN [http |-> 400, stock |-> st]
     ELSE [http |-> 201, stock |-> MapSet(st, pk, nuevo)]

\* ------------------------------------------------- orchestrator: helpers
\* The reduce that stops after the first row.
SumStock_Primera(rows) == IF rows = <<>> THEN 0 ELSE Head(rows).stock_actual

RECURSIVE SumStock(_)
\* (st || []).reduce((a, s) => a + (s.stock_actual ?? 0), 0)
SumStock(rows) ==
  IF rows = <<>> THEN 0 ELSE Head(rows).stock_actual + SumStock(Tail(rows))

RECURSIVE CantidadDe(_, _)
\* The quantity of product p in a list of line items.
CantidadDe(items, p) ==
  IF items = <<>> THEN 0
  ELSE (IF Head(items).id_producto = p THEN Head(items).cantidad ELSE 0)
       + CantidadDe(Tail(items), p)

RECURSIVE Reservado(_, _, _)
\* The quantity of product p held by the reservation records of ids.
Reservado(mR, ids, p) ==
  IF ids = {} THEN 0
  ELSE LET id == CHOOSE x \in ids : TRUE
       IN CantidadDe(mR[id].items, p) + Reservado(mR, ids \ {id}, p)

\* An availability that counts reservations as a hold on the stock.
Disponible_Hold(st, it, idSucursal) ==
  SumStock(ConsultarStock(st, it.id_producto, idSucursal))
    - Reservado(memReservas, DOMAIN memReservas, it.id_producto)

\* The availability the verification loop computes for one line.
Disponible(st, it, idSucursal) ==
  SumStock(ConsultarStock(st, it.id_producto, idSucursal))

\* The comparison off by one: a line whose stock equals the demand is short.
Insuficiente_Menor_Igual(disp, it) == disp <= it.cantidad

\* if (disp < it.cantidad) faltantes.push({...})
Insuficiente(disp, it) == disp < it.cantidad

Faltante(it, disp) ==
  [id_producto |-> it.id_producto, requerido |-> it.cantidad, disponible |-> disp]

\* Response bodies, one record shape for all of them.
\* A field the handler does not write keeps its default here ("" or <<>>).
BodyBase ==
  [code |-> "", message |-> "", id_receta |-> "", ok |-> FALSE,
   vence_en_ms |-> 0, details |-> <<>>, error |-> "",
   estado_final |-> "", cantidad_total |-> 0, movimientos |-> <<>>,
   status |-> "", items |-> <<>>, estado_sugerido |-> "",
   correlation_id |-> ""]

NoRes == [status |-> 0, body |-> BodyBase]
Resp(status, body) == [status |-> status, body |-> body]

ValidationError(msg) ==
  Resp(400, [BodyBase EXCEPT !.code = "VALIDATION_ERROR", !.message = msg])

StockInsuficiente(msg, faltantes) ==
  Resp(409, [BodyBase EXCEPT !.code = "STOCK_INSUFICIENTE", !.message = msg,
                             !.details = faltantes])

DownstreamError(msg, e) ==
  Resp(502, [BodyBase EXCEPT !.code = "DOWNSTREAM_ERROR", !.message = msg,
                             !.error = e])

\* { ok: true, id_receta: id, vence_en_ms: RESERVA_TTL_MS }
ReservaResult(id) ==
  [BodyBase EXCEPT !.ok = TRUE, !.id_receta = id, !.vence_en_ms = RESERVA_TTL_MS]

\* A reservation stored with the idempotency TTL instead of its own.
ReservaRecord_OtroTTL(t, items) == [vence |-> t + IDEM_TTL_MS, items |-> items]

\* The record memReservas.set stores at time t.
ReservaRecord(t, items) == [vence |-> t + RESERVA_TTL_MS, items |-> items]

\* No movement, and what findById gives when there is no row.
MovNulo == Movimiento(0, "", "", 0)
SinFila == [existe |-> FALSE, stock_actual |-> 0]

\* A request slot: the handler's locals, and (g_*) a history of what it did.
ReqIdle ==
  [op |-> "none", idem |-> "", id |-> "", pc |-> "idle",
   id_sucursal |-> 0, detalle |-> <<>>, i |-> 1, faltantes |-> <<>>,
   applied |-> <<>>, j |-> 1, err |-> "", res |-> NoRes,
   g_replay |-> FALSE, g_reads |-> 0, g_calls |-> <<>>,
   g_disp |-> <<>>, g_records |-> <<>>,
   header |-> "", cid |-> "", probes |-> <<>>,
   producto |-> "", busqueda |-> "", distrito |-> "", productos |-> <<>>,
   acc |-> <<>>, filas |-> <<>>, g_envios |-> <<>>,
   g_colgado |-> FALSE, g_purga |-> FALSE,
   mov |-> MovNulo, leido |-> SinFila, g_log |-> <<>>]

\* The lookup of a reservation (spec 4.2, get): the items, or nothing when
\* there is no record or the record is past its expiry time.
ReservaGet(mR, id, t) ==
  IF id \in DOMAIN mR /\ ~(t > mR[id].vence) THEN {mR[id].items} ELSE {}

\* ---------------------------------------------- POST /reserva-stock
\* The idempotency key of the request: header or body field, "" when none.
KeyInputs == Keys \cup {""}
\* The id_receta of a request to the soft hold or to a pre-validation: one of
\* the prescriptions of up to two lines, or "" when the field is missing.
IdInputs == (RecetaIds \ {"R5"}) \cup {""}
\* The id_receta of a request to the saga: the three-line R5 as well.
DispIdInputs == IdInputs \cup {"R5"}

Finish(rq, res) == [rq EXCEPT !.pc = "done", !.res = res]

\* A handler's tail that stores the 409 under the key as well.
ReservaCierre_CacheaFallo(rq, mI, mR, t) ==
  LET res == IF Len(rq.faltantes) # 0
               THEN StockInsuficiente("No alcanza para reservar", rq.faltantes)
               ELSE Resp(200, ReservaResult(rq.id))
  IN [res |-> res,
      memIdem |-> IF rq.idem # "" THEN IdemSet(mI, rq.idem, res.body, t) ELSE mI,
      memReservas |-> IF Len(rq.faltantes) # 0 THEN mR
                      ELSE MapSet(mR, rq.id, ReservaRecord(t, rq.detalle))]

\* The handler's tail once the verification loop is over (lines 298-309):
\* what is answered and what the two stores hold afterwards.
ReservaCierre(rq, mI, mR, t) ==
  IF Len(rq.faltantes) # 0
    THEN [res |-> StockInsuficiente("No alcanza para reservar", rq.faltantes),
          memIdem |-> mI, memReservas |-> mR]
    ELSE [res |-> Resp(200, ReservaResult(rq.id)),
          memIdem |-> IF rq.idem # ""
                        THEN IdemSet(mI, rq.idem, ReservaResult(rq.id), t)
                        ELSE mI,
          memReservas |-> MapSet(mR, rq.id, ReservaRecord(t, rq.detalle))]

\* The handler with its first two steps swapped: the idempotency gate runs
\* before id_receta is checked.
ReservaArrive_GatePrimero(r) ==
  \E key \in KeyInputs, id \in IdInputs :
    /\ req[r].pc = "idle"
    /\ LET rq == [req[r] EXCEPT !.op = "reserva", !.idem = key, !.id = id]
           cache == IF key # "" THEN IdemGetResult(memIdem, key, now) ELSE {}
       IN /\ memIdem' = IF key # "" THEN IdemGetMap(memIdem, key, now)
                                     ELSE memIdem
          /\ IF cache # {}
               THEN req' = [req EXCEPT ![r] =
                      [Finish(rq, Resp(200, CHOOSE c \in cache : TRUE))
                         EXCEPT !.g_replay = TRUE]]
             ELSE IF id = ""
               THEN req' = [req EXCEPT ![r] =
                      Finish(rq, ValidationError("id_receta requerido"))]
             ELSE req' = [req EXCEPT ![r] =
                      [rq EXCEPT !.pc = "fetch", !.g_reads = 1]]
    /\ UNCHANGED <<now, memReservas, stock, faults>>

\* Lines 262-285: validation, the idempotency gate, then GET receta is sent.
ReservaArrive(r) ==
  \E key \in KeyInputs, id \in IdInputs :
    /\ req[r].pc = "idle"
    /\ LET rq == [req[r] EXCEPT !.op = "reserva", !.idem = key, !.id = id]
           cache == IF key # "" THEN IdemGetResult(memIdem, key, now) ELSE {}
       IN IF id = ""
            THEN /\ req' = [req EXCEPT ![r] =
                              Finish(rq, ValidationError("id_receta requerido"))]
                 /\ UNCHANGED memIdem
            ELSE /\ memIdem' = IF key # "" THEN IdemGetMap(memIdem, key, now)
                                            ELSE memIdem
                 /\ IF cache # {}
                      THEN req' = [req EXCEPT ![r] =
                             [Finish(rq, Resp(200, CHOOSE c \in cache : TRUE))
                                EXCEPT !.g_replay = TRUE]]
                      ELSE req' = [req EXCEPT ![r] =
                             [rq EXCEPT !.pc = "fetch", !.g_reads = 1,
                                !.g_purga = (memIdem' # memIdem)]]
    /\ UNCHANGED <<now, memReservas, stock, faults>>

\* Lines 282-292: the prescription arrives; the first stock query is sent, or,
\* with no line, the handler runs to its end.
ReservaFetchOk(r) ==
  /\ req[r].op = "reserva" /\ req[r].pc = "fetch"
  /\ LET rec == Recetas[req[r].id]
         rq == [req[r] EXCEPT !.id_sucursal = rec.id_sucursal,
                              !.detalle = rec.detalle, !.i = 1]
     IN IF Len(rec.detalle) = 0
          THEN LET c == ReservaCierre(rq, memIdem, memReservas, now)
               IN /\ req' = [req EXCEPT ![r] = Finish(rq, c.res)]
                  /\ memIdem' = c.memIdem
                  /\ memReservas' = c.memReservas
          ELSE /\ req' = [req EXCEPT ![r] =
                            [rq EXCEPT !.pc = "stock", !.g_reads = @ + 1]]
               /\ UNCHANGED <<memIdem, memReservas>>
  /\ UNCHANGED <<now, stock, faults>>

\* Lines 288-297: the stock of line i arrives; next line, or the handler's end.
ReservaStockOk(r) ==
  /\ req[r].op = "reserva" /\ req[r].pc = "stock"
  /\ LET it == req[r].detalle[req[r].i]
         disp == Disponible(stock, it, req[r].id_sucursal)
         rq == [req[r] EXCEPT
                  !.faltantes = IF Insuficiente(disp, it)
                                  THEN Append(@, Faltante(it, disp)) ELSE @,
                  !.g_disp = Append(@, disp)]
     IN IF req[r].i < Len(req[r].detalle)
          THEN /\ req' = [req EXCEPT ![r] =
                            [rq EXCEPT !.i = @ + 1, !.g_reads = @ + 1]]
               /\ UNCHANGED <<memIdem, memReservas>>
          ELSE LET c == ReservaCierre(rq, memIdem, memReservas, now)
               IN /\ req' = [req EXCEPT ![r] = Finish(rq, c.res)]
                  /\ memIdem' = c.memIdem
                  /\ memReservas' = c.memReservas
  /\ UNCHANGED <<now, stock, faults>>

\* Lines 310-316: a downstream read fails (no answer in time, or not 2xx).
ReservaFail(r) ==
  /\ req[r].op = "reserva" /\ req[r].pc \in {"fetch", "stock"}
  /\ faults < MaxFaults
  /\ faults' = faults + 1
  /\ req' = [req EXCEPT ![r] =
               Finish(req[r], DownstreamError("Fallo al reservar", "AxiosError"))]
  /\ UNCHANGED <<now, memIdem, memReservas, stock>>


\* ------------------------------------------------------ POST /dispensar
\* The dispensation saga of spec section 4.4:
\*   START -> FETCH_PRESCRIPTION -> VERIFY_ALL_LINES -> (REJECTED)
\*         -> APPLY_EGRESS_SEQUENTIALLY -> (COMPENSATE -> FAILED)
\*         -> RECORD_DISPENSATION -> DONE
\* pc: "fetch", "stock" (verify), "egress", "comp", "record", "done".

\* The status a result is answered with, first time or replayed.
StatusOf(body) ==
  CASE body.code = "STOCK_INSUFICIENTE" -> 409
    [] body.code = "DOWNSTREAM_ERROR" -> 502
    [] body.code = "VALIDATION_ERROR" -> 422
    [] OTHER -> 200

\* A total that counts the lines instead of adding their quantities.
SumCantidad_Cuenta(ms) == Len(ms)

RECURSIVE SumCantidad(_)
SumCantidad(ms) ==
  IF ms = <<>> THEN 0 ELSE Head(ms).cantidad + SumCantidad(Tail(ms))

\* The result of a saga that committed.
Dispensada(rq) ==
  [BodyBase EXCEPT !.ok = TRUE, !.id_receta = rq.id,
                   !.estado_final = "DISPENSADA",
                   !.cantidad_total = SumCantidad(rq.applied),
                   !.movimientos = rq.applied]

\* The ledger call that applies one line, and the one that reverses it.
Egreso(suc, it) == Movimiento(suc, it.id_producto, "EGRESO", it.cantidad)
\* A compensation that repeats the movement instead of inverting it.
Compensacion_SinInvertir(ap) == ap

Compensacion(ap) ==
  Movimiento(ap.id_sucursal, ap.id_producto, "ENTRADA", ap.cantidad)

\* stock_actual of a row, 0 when there is no row.
StockAt(st, pk) == IF pk \in DOMAIN st THEN st[pk] ELSE 0

\* One ledger-mutating call as the saga issued it: did the ledger apply it,
\* did the saga get a success back, and by how much the ledger's row changed
\* (st: the stock table before the call, st2: after it).
Call(m, aplicado, ok, st, st2) ==
  [mov |-> m, aplicado |-> aplicado, ok |-> ok,
   delta |-> StockAt(st2, <<m.id_sucursal, m.id_producto>>)
             - StockAt(st, <<m.id_sucursal, m.id_producto>>)]

\* Exit: the result is cached under the key, if one was supplied.
DispCache(rq, body, mI, t) ==
  IF rq.idem # "" THEN IdemSet(mI, rq.idem, body, t) ELSE mI

DispFinish(rq, body) == Finish(rq, Resp(StatusOf(body), body))

Fallo(rq) == DownstreamError("Fallo al dispensar", rq.err).body

\* Entry: validation, then the idempotency gate, then FETCH_PRESCRIPTION.
DispArrive(r) ==
  \E key \in KeyInputs, id \in DispIdInputs :
    /\ req[r].pc = "idle"
    /\ LET rq == [req[r] EXCEPT !.op = "dispensar", !.idem = key, !.id = id]
           cache == IF key # "" THEN IdemGetResult(memIdem, key, now) ELSE {}
       IN IF id = ""
            THEN /\ req' = [req EXCEPT ![r] =
                     DispFinish(rq, ValidationError("id_receta requerido").body)]
                 /\ UNCHANGED memIdem
            ELSE /\ memIdem' = IF key # "" THEN IdemGetMap(memIdem, key, now)
                                            ELSE memIdem
                 /\ IF cache # {}
                      THEN req' = [req EXCEPT ![r] =
                             [DispFinish(rq, CHOOSE c \in cache : TRUE)
                                EXCEPT !.g_replay = TRUE]]
                      ELSE req' = [req EXCEPT ![r] =
                             [rq EXCEPT !.pc = "fetch", !.g_reads = 1]]
    /\ UNCHANGED <<now, memReservas, stock, faults>>

\* FETCH_PRESCRIPTION: zero line items is a validation failure.
DispFetchOk(r) ==
  /\ req[r].op = "dispensar" /\ req[r].pc = "fetch"
  /\ LET rec == Recetas[req[r].id]
         rq == [req[r] EXCEPT !.id_sucursal = rec.id_sucursal,
                              !.detalle = rec.detalle, !.i = 1]
     IN IF Len(rec.detalle) = 0
          THEN req' = [req EXCEPT ![r] =
                 DispFinish(rq, ValidationError("receta sin detalle").body)]
          ELSE req' = [req EXCEPT ![r] =
                 [rq EXCEPT !.pc = "stock", !.g_reads = @ + 1]]
  /\ UNCHANGED <<now, memIdem, memReservas, stock, faults>>

\* VERIFY_ALL_LINES, restricted to the prescription's own location; after the
\* last line: REJECTED with the shortfall list, or the first egress is sent.
DispStockOk(r) ==
  /\ req[r].op = "dispensar" /\ req[r].pc = "stock"
  /\ LET it == req[r].detalle[req[r].i]
         disp == Disponible(stock, it, req[r].id_sucursal)
         rq == [req[r] EXCEPT
                  !.faltantes = IF Insuficiente(disp, it)
                                  THEN Append(@, Faltante(it, disp)) ELSE @,
                  !.g_disp = Append(@, disp)]
         body == StockInsuficiente("No alcanza para dispensar", rq.faltantes).body
     IN IF req[r].i < Len(req[r].detalle)
          THEN /\ req' = [req EXCEPT ![r] =
                            [rq EXCEPT !.i = @ + 1, !.g_reads = @ + 1]]
               /\ UNCHANGED memIdem
          ELSE IF Len(rq.faltantes) # 0
            THEN /\ req' = [req EXCEPT ![r] = DispFinish(rq, body)]
                 /\ memIdem' = DispCache(rq, body, memIdem, now)
            ELSE /\ req' = [req EXCEPT ![r] = [rq EXCEPT !.pc = "egress", !.i = 1]]
                 /\ UNCHANGED memIdem
  /\ UNCHANGED <<now, memReservas, stock, faults>>

\* A read (prescription or stock) fails: FAILED, nothing to compensate.
DispReadFail(r) ==
  /\ req[r].op = "dispensar" /\ req[r].pc \in {"fetch", "stock"}
  /\ faults < MaxFaults
  /\ faults' = faults + 1
  /\ LET rq == [req[r] EXCEPT !.err = "AxiosError"]
     IN /\ req' = [req EXCEPT ![r] = DispFinish(rq, Fallo(rq))]
        /\ memIdem' = DispCache(rq, Fallo(rq), memIdem, now)
  /\ UNCHANGED <<now, memReservas, stock>>

\* The egress of line i did not succeed (rq.err says why): COMPENSATE, or
\* FAILED at once when nothing was applied.
DispEgressFailed(r, rq, st) ==
  /\ stock' = st
  /\ IF Len(rq.applied) = 0
       THEN /\ req' = [req EXCEPT ![r] = DispFinish(rq, Fallo(rq))]
            /\ memIdem' = DispCache(rq, Fallo(rq), memIdem, now)
       ELSE /\ req' = [req EXCEPT ![r] = [rq EXCEPT !.pc = "comp", !.j = 1]]
            /\ UNCHANGED memIdem

\* APPLY_EGRESS_SEQUENTIALLY: the ledger answers the decrease of line i.
DispEgress(r) ==
  /\ req[r].op = "dispensar" /\ req[r].pc = "egress"
  /\ LET m == Egreso(req[r].id_sucursal, req[r].detalle[req[r].i])
         out == RegistrarMovimiento(stock, m)
     IN IF out.http = 201
          THEN /\ stock' = out.stock
               /\ req' = [req EXCEPT ![r] =
                    [req[r] EXCEPT
                       !.applied = Append(@, m),
                       !.g_calls = Append(@, Call(m, TRUE, TRUE, stock, out.stock)),
                       !.pc = IF req[r].i < Len(req[r].detalle)
                                THEN "egress" ELSE "record",
                       !.i = @ + 1]]
               /\ UNCHANGED memIdem
          ELSE DispEgressFailed(r,
                 [req[r] EXCEPT !.err = "HTTP 400",
                                !.g_calls = Append(@, Call(m, FALSE, FALSE, stock, stock))],
                 stock)
  /\ UNCHANGED <<now, memReservas, faults>>

\* The decrease of line i gets no answer: the request was lost, or the answer
\* timed out after the ledger applied it.
DispEgressFault(r) ==
  /\ req[r].op = "dispensar" /\ req[r].pc = "egress"
  /\ faults < MaxFaults
  /\ faults' = faults + 1
  /\ \E llego \in BOOLEAN :
       LET m == Egreso(req[r].id_sucursal, req[r].detalle[req[r].i])
           out == RegistrarMovimiento(stock, m)
           aplicado == llego /\ out.http = 201
           st2 == IF aplicado THEN out.stock ELSE stock
       IN DispEgressFailed(r,
            [req[r] EXCEPT !.err = "timeout",
                           !.g_calls = Append(@, Call(m, aplicado, FALSE, stock, st2))],
            st2)
  /\ UNCHANGED <<now, memReservas>>

\* COMPENSATE, step j done with outcome (aplicado, ok): next one, or FAILED
\* with the error that triggered the compensation.
DispCompensated(r, aplicado, ok, st) ==
  LET m == Compensacion(req[r].applied[req[r].j])
      rq == [req[r] EXCEPT !.g_calls = Append(@, Call(m, aplicado, ok, stock, st))]
  IN /\ stock' = st
     /\ IF req[r].j < Len(req[r].applied)
          THEN /\ req' = [req EXCEPT ![r] = [rq EXCEPT !.j = @ + 1]]
               /\ UNCHANGED memIdem
          ELSE /\ req' = [req EXCEPT ![r] = DispFinish(rq, Fallo(rq))]
               /\ memIdem' = DispCache(rq, Fallo(rq), memIdem, now)

\* COMPENSATE walking the AppliedMutation list from its end (LIFO).
DispCompensate_OrdenInverso(r) ==
  /\ req[r].op = "dispensar" /\ req[r].pc = "comp"
  /\ LET k == Len(req[r].applied) - req[r].j + 1
         m == Compensacion(req[r].applied[k])
         out == RegistrarMovimiento(stock, m)
         rq == [req[r] EXCEPT !.g_calls =
                  Append(@, Call(m, out.http = 201, out.http = 201,
                                 stock, out.stock))]
     IN /\ stock' = out.stock
        /\ IF req[r].j < Len(req[r].applied)
             THEN /\ req' = [req EXCEPT ![r] = [rq EXCEPT !.j = @ + 1]]
                  /\ UNCHANGED memIdem
             ELSE /\ req' = [req EXCEPT ![r] = DispFinish(rq, Fallo(rq))]
                  /\ memIdem' = DispCache(rq, Fallo(rq), memIdem, now)
  /\ UNCHANGED <<now, memReservas, faults>>

\* The ledger answers the increase that reverses applied mutation j.
DispCompensate(r) ==
  /\ req[r].op = "dispensar" /\ req[r].pc = "comp"
  /\ LET out == RegistrarMovimiento(stock, Compensacion(req[r].applied[req[r].j]))
     IN DispCompensated(r, out.http = 201, out.http = 201, out.stock)
  /\ UNCHANGED <<now, memReservas, faults>>

\* A failed compensation that ends COMPENSATE at once, with its own error.
DispCompensateFault_Aborta(r) ==
  /\ req[r].op = "dispensar" /\ req[r].pc = "comp"
  /\ faults < MaxFaults
  /\ faults' = faults + 1
  /\ LET m == Compensacion(req[r].applied[req[r].j])
         rq == [req[r] EXCEPT !.err = "compensacion",
                  !.g_calls = Append(@, Call(m, FALSE, FALSE, stock, stock))]
     IN /\ req' = [req EXCEPT ![r] = DispFinish(rq, Fallo(rq))]
        /\ memIdem' = DispCache(rq, Fallo(rq), memIdem, now)
  /\ UNCHANGED <<now, memReservas, stock>>

\* The increase gets no answer; the failure is ignored.
DispCompensateFault(r) ==
  /\ req[r].op = "dispensar" /\ req[r].pc = "comp"
  /\ faults < MaxFaults
  /\ faults' = faults + 1
  /\ \E llego \in BOOLEAN :
       LET out == RegistrarMovimiento(stock, Compensacion(req[r].applied[req[r].j]))
           aplicado == llego /\ out.http = 201
       IN DispCompensated(r, aplicado, FALSE, IF aplicado THEN out.stock ELSE stock)
  /\ UNCHANGED <<now, memReservas>>

\* RECORD_DISPENSATION succeeded: DONE.
DispRecordOk(r) ==
  /\ req[r].op = "dispensar" /\ req[r].pc = "record"
  /\ LET rq == [req[r] EXCEPT !.g_records =
                  Append(@, [id_receta |-> req[r].id,
                             cantidad_total |-> SumCantidad(req[r].applied)])]
     IN /\ req' = [req EXCEPT ![r] = DispFinish(rq, Dispensada(rq))]
        /\ memIdem' = DispCache(rq, Dispensada(rq), memIdem, now)
  /\ UNCHANGED <<now, memReservas, stock, faults>>

\* RECORD_DISPENSATION failed: the saga did not commit and says so.
DispRecordFail(r) ==
  /\ req[r].op = "dispensar" /\ req[r].pc = "record"
  /\ faults < MaxFaults
  /\ faults' = faults + 1
  /\ LET rq == [req[r] EXCEPT !.err = "AxiosError"]
     IN /\ req' = [req EXCEPT ![r] = DispFinish(rq, Fallo(rq))]
        /\ memIdem' = DispCache(rq, Fallo(rq), memIdem, now)
  /\ UNCHANGED <<now, memReservas, stock>>

\* A disconnect that cancels the handler where it stands.
Desconexion_Cancela(r) ==
  /\ req[r].op = "dispensar" /\ req[r].pc \notin {"idle", "done"}
  /\ ~req[r].g_colgado
  /\ req' = [req EXCEPT ![r] = [req[r] EXCEPT !.g_colgado = TRUE,
                                              !.pc = "cancelled"]]
  /\ UNCHANGED <<now, memIdem, memReservas, stock, faults>>

\* The caller of an execution in progress closes its connection.  Nothing is
\* propagated to the saga: it goes on from where it stands.
Desconexion(r) ==
  /\ req[r].op = "dispensar" /\ req[r].pc \notin {"idle", "done"}
  /\ ~req[r].g_colgado
  /\ req' = [req EXCEPT ![r] = [req[r] EXCEPT !.g_colgado = TRUE]]
  /\ UNCHANGED <<now, memIdem, memReservas, stock, faults>>

\* ------------------------------------------- correlation and client
\* The X-Correlation-Id header of an inbound request, "" when it has none.
HeaderInputs == {"", "h1"}

\* crypto.randomUUID() as called for request r: a value no other call yields.
RandomUUID(r) == IF r = "a" THEN "uuid-a" ELSE "uuid-b"

\* A correlation id that is one fixed value whenever the header is missing.
Cid_Fijo(header, uuid) == IF header # "" THEN header ELSE "uuid-0"

\* cid(req): req.header("X-Correlation-Id") || crypto.randomUUID()
Cid(header, uuid) == IF header # "" THEN header ELSE uuid

Servicios == <<"inventario", "recetas", "catalogo">>

\* The client sending every call as a POST.
Envio_Post(svc, metodo, ref, c) ==
  [svc |-> svc, metodo |-> "POST", ref |-> ref, cid |-> c]

\* One outbound call of the http client, with the header it carries.
Envio(svc, metodo, ref, c) ==
  [svc |-> svc, metodo |-> metodo, ref |-> ref, cid |-> c]

\* How a downstream call fails: at the transport (no answer within the
\* timeout, a reset connection) or with an answer outside 2xx.  axios rejects
\* alike in both cases.
Transporte == {"timeout"}
Errores == Transporte \cup {"HTTP 500"}

\* The request as it enters a handler that starts with const c = cid(req).
Entrada(r, op, h) ==
  [req[r] EXCEPT !.op = op, !.header = h, !.cid = Cid(h, RandomUUID(r))]

\* The catch of a handler: 502 with the failure in the body.
Atrapado(rq, msg, e) == [Finish(rq, DownstreamError(msg, e)) EXCEPT !.err = e]

\* ------------------------------------------------------- GET /readyz
\* Promise.allSettled for Promise.all: waits for every probe, rejects never.
PromiseAll_Settled(ps) ==
  IF \E n \in DOMAIN ps : ps[n] = "pending" THEN "pending" ELSE "fulfilled"

\* Promise.all over the settled states of its promises.
PromiseAll(ps) ==
  IF \E n \in DOMAIN ps : ps[n] = "rejected" THEN "rejected"
  ELSE IF \A n \in DOMAIN ps : ps[n] = "fulfilled" THEN "fulfilled"
  ELSE "pending"

Ready == Resp(200, [BodyBase EXCEPT !.status = "ready"])

DownstreamUnavailable ==
  Resp(503, [BodyBase EXCEPT !.code = "DOWNSTREAM_UNAVAILABLE",
                             !.message = "Algun servicio no responde"])

\* Lines 61-68: the three health probes are sent with one header object.
ReadyArrive(r) ==
  \E h \in HeaderInputs :
    /\ req[r].pc = "idle"
    /\ LET rq == Entrada(r, "readyz", h)
       IN req' = [req EXCEPT ![r] =
            [rq EXCEPT !.pc = "probes",
                       !.probes = [n \in 1 .. 3 |-> "pending"],
                       !.g_envios = [n \in 1 .. 3 |->
                          Envio(Servicios[n], "GET", "healthz", rq.cid)]]]
    /\ UNCHANGED <<now, memIdem, memReservas, stock, faults>>

\* Probe n settles as va; the handler answers when Promise.all settles, and a
\* probe that settles after the answer changes nothing of it.
ReadySettle(r, n, va) ==
  /\ req[r].op = "readyz" /\ req[r].probes[n] = "pending"
  /\ LET ps == [req[r].probes EXCEPT ![n] = va]
         rq == [req[r] EXCEPT !.probes = ps]
     IN req' = [req EXCEPT ![r] =
          IF req[r].pc # "probes" THEN rq
          ELSE IF PromiseAll(ps) = "fulfilled" THEN Finish(rq, Ready)
          ELSE IF PromiseAll(ps) = "rejected"
            THEN Finish(rq, DownstreamUnavailable)
          ELSE rq]
  /\ UNCHANGED <<now, memIdem, memReservas, stock, faults>>

\* A probe answers 2xx within the timeout.
ReadyProbeOk(r) == \E n \in 1 .. 3 : ReadySettle(r, n, "fulfilled")

\* A probe fails, or the timeout of lines 34-37 runs out first.
ReadyProbeFail(r) == \E n \in 1 .. 3 : ReadySettle(r, n, "rejected")

\* ------------------------------------- the ledger's stock queries
\* sucursal.distrito
Distrito(suc) == IF suc = 1 THEN "D1" ELSE "D2"

\* The repository queries carry no ORDER BY: the rows of a product come back
\* in one of these orders of the branches.
Ordenes == {<<1, 2>>, <<2, 1>>}

RECURSIVE FilasDe(_, _, _, _)
\* The stock rows of product p at the branches sucs, in the order orden.
FilasDe(st, p, sucs, orden) ==
  IF orden = <<>> THEN <<>>
  ELSE (IF Head(orden) \in sucs /\ <<Head(orden), p>> \in DOMAIN st
          THEN <<Row(<<Head(orden), p>>, st[<<Head(orden), p>>])>>
          ELSE <<>>)
       \o FilasDe(st, p, sucs, Tail(orden))

\* consultarStock(idProducto, null, null): findByProducto.
ConsultarStockProducto(st, idProducto, orden) ==
  FilasDe(st, idProducto, Sucursales, orden)

\* consultarStock(idProducto, null, distrito): findByProductoAndSucursales,
\* and no row at all when the district has no branch.
ConsultarStockDistrito(st, idProducto, distrito, orden) ==
  LET idsPorDistrito == {suc \in Sucursales : Distrito(suc) = distrito}
  IN IF idsPorDistrito = {} THEN <<>>
     ELSE FilasDe(st, idProducto, idsPorDistrito, orden)

\* Movements other clients of the ledger post while the coordinator reads.
MovimientosExternos ==
  {Movimiento(2, "PROD-2", "EGRESO", 2), Movimiento(1, "PROD-2", "EGRESO", 2)}

\* POST /movimientos from another client, accepted by the ledger.
InventarioMovimiento ==
  \E m \in MovimientosExternos :
    /\ RegistrarMovimiento(stock, m).http = 201
    /\ stock' = RegistrarMovimiento(stock, m).stock
    /\ UNCHANGED <<now, memIdem, memReservas, req, faults>>

\* ------------------------------------------------ GET /disponibilidad
\* Number(req.query.stock_minimo ?? req.query.minStock ?? 1), query without it.
StockMinimo == 1

ProductoInputs == {"", "PROD-2"}
BusquedaInputs == {"", "q"}
DistritoInputs == {"", "D1"}

RECURSIVE Filtrar(_, _)
\* st.filter(s => s.stock_actual >= stock_minimo)
Filtrar(st, minimo) ==
  IF st = <<>> THEN <<>>
  ELSE (IF Head(st).stock_actual >= minimo THEN <<Head(st)>> ELSE <<>>)
       \o Filtrar(Tail(st), minimo)

Disponibilidad(items) == Resp(200, [BodyBase EXCEPT !.items = items])

\* Lines 80-114: the two checks, and the catalog call between them.
DispoArrive(r) ==
  \E h \in HeaderInputs, producto \in ProductoInputs,
     busqueda \in BusquedaInputs, distrito \in DistritoInputs :
    /\ req[r].pc = "idle"
    /\ LET rq == [Entrada(r, "disponibilidad", h) EXCEPT
                    !.producto = producto, !.busqueda = busqueda,
                    !.distrito = distrito]
       IN req' = [req EXCEPT ![r] =
            IF distrito = ""
              THEN Finish(rq, ValidationError("distrito requerido"))
            ELSE IF producto # ""
              THEN [rq EXCEPT !.pc = "cat", !.g_envios =
                      <<Envio("catalogo", "GET", producto, rq.cid)>>]
            ELSE IF busqueda # ""
              THEN [rq EXCEPT !.pc = "cat", !.g_envios =
                      <<Envio("catalogo", "GET", "productos", rq.cid)>>]
            ELSE Finish(rq, ValidationError("producto o busqueda requerido"))]
    /\ UNCHANGED <<now, memIdem, memReservas, stock, faults>>

\* Lines 98-124: the catalog answers.  By id it is the product document; the
\* search answers a page object {total, pagina, tamano_pagina, items}, which
\* has no length, so the handler answers an empty list.
DispoCatalogOk(r) ==
  /\ req[r].op = "disponibilidad" /\ req[r].pc = "cat"
  /\ req' = [req EXCEPT ![r] =
       IF req[r].producto # ""
         THEN [req[r] EXCEPT !.productos = <<req[r].producto>>, !.i = 1,
                 !.pc = "dstock",
                 !.g_envios = Append(@, Envio("inventario", "GET",
                                              req[r].producto, req[r].cid))]
         ELSE Finish(req[r], Disponibilidad(<<>>))]
  /\ UNCHANGED <<now, memIdem, memReservas, stock, faults>>

\* Lines 119-130: the stock of product i in the district arrives.
DispoStockOk(r) ==
  /\ req[r].op = "disponibilidad" /\ req[r].pc = "dstock"
  /\ \E orden \in Ordenes :
       LET prod == req[r].productos[req[r].i]
           st == ConsultarStockDistrito(stock, prod, req[r].distrito, orden)
           rq == [req[r] EXCEPT !.acc = Append(@,
                    [producto |-> prod, sucursales |-> Filtrar(st, StockMinimo)])]
       IN req' = [req EXCEPT ![r] =
            IF req[r].i < Len(req[r].productos)
              THEN [rq EXCEPT !.i = @ + 1,
                      !.g_envios = Append(@, Envio("inventario", "GET",
                                     req[r].productos[req[r].i + 1], req[r].cid))]
              ELSE Finish(rq, Disponibilidad(rq.acc))]
  /\ UNCHANGED <<now, memIdem, memReservas, stock, faults>>

\* Lines 131-137: the call in flight fails.
DispoFail(r) ==
  /\ req[r].op = "disponibilidad" /\ req[r].pc \in {"cat", "dstock"}
  /\ faults < MaxFaults
  /\ faults' = faults + 1
  /\ \E e \in Errores :
       req' = [req EXCEPT ![r] =
         Atrapado(req[r], "Fallo consultando disponibilidad", e)]
  /\ UNCHANGED <<now, memIdem, memReservas, stock>>

\* --------------------------------------------- pre-validation, shared
\* The verdict of both validation handlers:
\* ok ? "VALIDADA" : (items.some(i => i.disponible > 0) ? "PARCIAL" : "RECHAZADA")
\* A verdict with two outcomes: what is not VALIDADA is RECHAZADA.
EstadoSugerido_SinParcial(ok, items) == IF ok THEN "VALIDADA" ELSE "RECHAZADA"

EstadoSugerido(ok, items) ==
  IF ok THEN "VALIDADA"
  ELSE IF \E n \in 1 .. Len(items) : items[n].disponible > 0 THEN "PARCIAL"
  ELSE "RECHAZADA"

\* The slots of Promise.all(detalle.map(async it => ...)): one per line, each
\* filled with the rows of its own stock query when that query answers.
Pendientes(detalle) == [n \in 1 .. Len(detalle) |-> [listo |-> FALSE, st |-> <<>>]]

Listas(filas) == \A n \in 1 .. Len(filas) : filas[n].listo

\* The stock queries of all lines, sent at once when the prescription arrives.
Consultas(detalle, c) ==
  [n \in 1 .. Len(detalle) |->
     Envio("inventario", "GET", detalle[n].id_producto, c)]

\* --------------------------------------------- POST /receta/validar
\* Lines 198-199: one line of the answer.
ItemValidar(it, st) ==
  LET disp == SumStock(st)
  IN [id_producto |-> it.id_producto, solicitado |-> it.cantidad,
      disponible |-> disp, ok |-> disp >= it.cantidad]

\* Lines 201-206: the answer once every line has its rows.
ValidarCierre(rq) ==
  LET items == [n \in 1 .. Len(rq.detalle) |->
                  ItemValidar(rq.detalle[n], rq.filas[n].st)]
      todos == \A n \in 1 .. Len(items) : items[n].ok
  IN Resp(IF todos THEN 200 ELSE 207,
          [BodyBase EXCEPT !.id_receta = rq.id, !.items = items,
                           !.estado_sugerido = EstadoSugerido(todos, items)])

\* Lines 177-191: the check of id_receta, then GET receta is sent.
ValArrive(r) ==
  \E h \in HeaderInputs, id \in IdInputs :
    /\ req[r].pc = "idle"
    /\ LET rq == [Entrada(r, "validar", h) EXCEPT !.id = id]
       IN req' = [req EXCEPT ![r] =
            IF id = ""
              THEN Finish(rq, ValidationError("id_receta requerido"))
              ELSE [rq EXCEPT !.pc = "fetch", !.g_envios =
                      <<Envio("recetas", "GET", id, rq.cid)>>]]
    /\ UNCHANGED <<now, memIdem, memReservas, stock, faults>>

\* Lines 188-197: the prescription arrives and every line's query is sent.
ValFetchOk(r) ==
  /\ req[r].op = "validar" /\ req[r].pc = "fetch"
  /\ LET rec == Recetas[req[r].id]
         rq == [req[r] EXCEPT !.id_sucursal = rec.id_sucursal,
                  !.detalle = rec.detalle,
                  !.filas = Pendientes(rec.detalle),
                  !.g_envios = @ \o Consultas(rec.detalle, req[r].cid)]
     IN req' = [req EXCEPT ![r] =
          IF Len(rec.detalle) = 0 THEN Finish(rq, ValidarCierre(rq))
          ELSE [rq EXCEPT !.pc = "lines"]]
  /\ UNCHANGED <<now, memIdem, memReservas, stock, faults>>

\* Lines 194-206: the query of some line answers, in any order of the lines;
\* the last answer lets Promise.all resolve.
ValStockOk(r) ==
  /\ req[r].op = "validar" /\ req[r].pc = "lines"
  /\ \E n \in 1 .. Len(req[r].detalle) :
       /\ ~req[r].filas[n].listo
       /\ LET st == ConsultarStock(stock, req[r].detalle[n].id_producto,
                                   req[r].id_sucursal)
              rq == [req[r] EXCEPT !.filas[n] = [listo |-> TRUE, st |-> st]]
          IN req' = [req EXCEPT ![r] =
               IF Listas(rq.filas) THEN Finish(rq, ValidarCierre(rq)) ELSE rq]
  /\ UNCHANGED <<now, memIdem, memReservas, stock, faults>>

\* Lines 207-213: GET receta or one of the stock queries fails.
ValFail(r) ==
  /\ req[r].op = "validar" /\ req[r].pc \in {"fetch", "lines"}
  /\ faults < MaxFaults
  /\ faults' = faults + 1
  /\ \E e \in Errores :
       req' = [req EXCEPT ![r] = Atrapado(req[r], "Fallo validando receta", e)]
  /\ UNCHANGED <<now, memIdem, memReservas, stock>>

\* ------------------------------------------ GET /receta/:id/validacion
\* The first row whose own stock meets the quantity, taken the last instead.
Sugerida_Ultima(st, cantidad) ==
  LET ks == {k \in 1 .. Len(st) : st[k].stock_actual >= cantidad}
  IN IF ks = {} THEN 0
     ELSE st[CHOOSE k \in ks : \A j \in ks : j <= k].id_sucursal

RECURSIVE Sugerida(_, _)
\* st.find(x => x.stock_actual >= it.cantidad)?.id_sucursal || null, null as 0.
Sugerida(st, cantidad) ==
  IF st = <<>> THEN 0
  ELSE IF Head(st).stock_actual >= cantidad THEN Head(st).id_sucursal
  ELSE Sugerida(Tail(st), cantidad)

\* Lines 231-240: one line of the answer.
ItemValidacion(it, st) ==
  [id_producto |-> it.id_producto, solicitado |-> it.cantidad,
   disponible |-> SumStock(st),
   id_sucursal_sugerida |-> Sugerida(st, it.cantidad)]

\* Lines 242-247: the answer once every line has its rows.
ValidacionCierre(rq) ==
  LET items == [n \in 1 .. Len(rq.detalle) |->
                  ItemValidacion(rq.detalle[n], rq.filas[n].st)]
      ok == \A n \in 1 .. Len(items) : items[n].disponible >= items[n].solicitado
  IN Resp(200, [BodyBase EXCEPT !.id_receta = rq.id, !.items = items,
                                !.estado_sugerido = EstadoSugerido(ok, items)])

\* Lines 218-224: the id is part of the path; GET receta is sent.
VcnArrive(r) ==
  \E h \in HeaderInputs, id \in IdInputs \ {""} :
    /\ req[r].pc = "idle"
    /\ LET rq == [Entrada(r, "validacion", h) EXCEPT !.id = id]
       IN req' = [req EXCEPT ![r] =
            [rq EXCEPT !.pc = "fetch", !.g_envios =
               <<Envio("recetas", "GET", id, rq.cid)>>]]
    /\ UNCHANGED <<now, memIdem, memReservas, stock, faults>>

\* Lines 221-230: the prescription arrives and every line's query is sent.
VcnFetchOk(r) ==
  /\ req[r].op = "validacion" /\ req[r].pc = "fetch"
  /\ LET rec == Recetas[req[r].id]
         rq == [req[r] EXCEPT !.detalle = rec.detalle,
                  !.filas = Pendientes(rec.detalle),
                  !.g_envios = @ \o Consultas(rec.detalle, req[r].cid)]
     IN req' = [req EXCEPT ![r] =
          IF Len(rec.detalle) = 0 THEN Finish(rq, ValidacionCierre(rq))
          ELSE [rq EXCEPT !.pc = "lines"]]
  /\ UNCHANGED <<now, memIdem, memReservas, stock, faults>>

\* Lines 227-247: the query of some line answers with the product's rows at
\* every branch, in the order the ledger returns them.
VcnStockOk(r) ==
  /\ req[r].op = "validacion" /\ req[r].pc = "lines"
  /\ \E n \in 1 .. Len(req[r].detalle), orden \in Ordenes :
       /\ ~req[r].filas[n].listo
       /\ LET st == ConsultarStockProducto(stock, req[r].detalle[n].id_producto,
                                           orden)
              rq == [req[r] EXCEPT !.filas[n] = [listo |-> TRUE, st |-> st]]
          IN req' = [req EXCEPT ![r] =
               IF Listas(rq.filas) THEN Finish(rq, ValidacionCierre(rq)) ELSE rq]
  /\ UNCHANGED <<now, memIdem, memReservas, stock, faults>>

\* Lines 248-254: GET receta or one of the stock queries fails.
VcnFail(r) ==
  /\ req[r].op = "validacion" /\ req[r].pc \in {"fetch", "lines"}
  /\ faults < MaxFaults
  /\ faults' = faults + 1
  /\ \E e \in Errores :
       req' = [req EXCEPT ![r] =
         Atrapado(req[r], "Fallo consultando receta/stock", e)]
  /\ UNCHANGED <<now, memIdem, memReservas, stock>>

\* ------------------------------------------ the ledger's transactions
\* registrarMovimiento and ajustarStock are @Transactional methods that read
\* the stock row (findById), compute the new value in memory and write it
\* back (save, flushed at commit) together with the movement row.  The
\* service's threads run them concurrently, so another transaction may commit
\* between the read and the write.  A slot of req is one transaction here:
\* mov is the movement it will record, leido the row as it read it, and
\* g_log the movement rows it inserted.

\* Bodies of POST /movimientos ("" stands for a field that is missing).
MovInputs ==
  { Movimiento(1, "PROD-1", "EGRESO", 3), Movimiento(1, "PROD-1", "egreso", 3),
    Movimiento(1, "PROD-1", "ENTRADA", 2), Movimiento(1, "PROD-1", "EGRESO", 9),
    Movimiento(1, "PROD-1", "EGRESO", 0), Movimiento(1, "PROD-1", "AJUSTE", 1),
    Movimiento(1, "", "EGRESO", 1), Movimiento(2, "PROD-1", "EGRESO", 1),
    Movimiento(2, "PROD-1", "ENTRADA", 4) }

\* Bodies of PATCH /stock.
Ajuste(suc, prod, ajuste) ==
  [id_sucursal |-> suc, id_producto |-> prod, ajuste |-> ajuste]

AjusteInputs ==
  { Ajuste(1, "PROD-1", -3), Ajuste(1, "PROD-1", 2), Ajuste(1, "PROD-1", 0),
    Ajuste(1, "PROD-1", -9), Ajuste(2, "PROD-1", 1), Ajuste(1, "", 1) }

\* stockRepo.findById(pk)
FindById(st, pk) ==
  IF pk \in DOMAIN st THEN [existe |-> TRUE, stock_actual |-> st[pk]]
  ELSE SinFila

\* Math.abs(ajuste)
Abs(n) == IF n < 0 THEN -n ELSE n

\* The answer of GlobalExceptionHandler to an exception of the service.
Rechazo(rq, status) == Finish(rq, Resp(status, BodyBase))

\* registrarMovimiento that creates the missing row before it looks at the
\* type, outside any transaction: the row stays when the EGRESO is refused.
MovimientoEntra_CreaFila(r) ==
  \E m \in MovInputs :
    /\ req[r].pc = "idle"
    /\ LET rq == [req[r] EXCEPT !.op = "movimiento"]
           tipo == Upper(m.tipo_movimiento)
           pk == <<m.id_sucursal, m.id_producto>>
           s == FindById(stock, pk)
       IN IF m.id_producto = "" \/ m.tipo_movimiento = ""
               \/ tipo \notin {"ENTRADA", "EGRESO"} \/ m.cantidad <= 0
            THEN req' = [req EXCEPT ![r] = Rechazo(rq, 400)] /\ stock' = stock
          ELSE IF ~s.existe /\ tipo # "ENTRADA"
            THEN /\ req' = [req EXCEPT ![r] = Rechazo(rq, 404)]
                 /\ stock' = MapSet(stock, pk, 0)
          ELSE IF s.stock_actual + Delta(tipo, m.cantidad) < 0
            THEN req' = [req EXCEPT ![r] = Rechazo(rq, 400)] /\ stock' = stock
          ELSE /\ req' = [req EXCEPT ![r] =
                    [rq EXCEPT !.pc = "tx", !.leido = s,
                       !.mov = [m EXCEPT !.tipo_movimiento = tipo]]]
               /\ stock' = stock
    /\ UNCHANGED <<now, memIdem, memReservas, faults>>

\* registrarMovimiento up to the write (lines 122-157): the checks of the
\* body, the read of the row, the check of the new value.
MovimientoEntra(r) ==
  \E m \in MovInputs :
    /\ req[r].pc = "idle"
    /\ LET rq == [req[r] EXCEPT !.op = "movimiento"]
           tipo == Upper(m.tipo_movimiento)
           s == FindById(stock, <<m.id_sucursal, m.id_producto>>)
       IN IF m.id_producto = "" \/ m.tipo_movimiento = ""
            THEN req' = [req EXCEPT ![r] = Rechazo(rq, 400)]
          ELSE IF tipo \notin {"ENTRADA", "EGRESO"}
            THEN req' = [req EXCEPT ![r] = Rechazo(rq, 400)]
          ELSE IF m.cantidad <= 0
            THEN req' = [req EXCEPT ![r] = Rechazo(rq, 400)]
          ELSE IF ~s.existe /\ tipo # "ENTRADA"
            THEN req' = [req EXCEPT ![r] = Rechazo(rq, 404)]
          ELSE IF s.stock_actual + Delta(tipo, m.cantidad) < 0
            THEN req' = [req EXCEPT ![r] = Rechazo(rq, 400)]
          ELSE req' = [req EXCEPT ![r] =
                 [rq EXCEPT !.pc = "tx", !.leido = s,
                    !.mov = [m EXCEPT !.tipo_movimiento = tipo]]]
    /\ UNCHANGED <<now, memIdem, memReservas, stock, faults>>

\* PATCH /stock and ajustarStock up to the write (part_004 56-69, lines
\* 91-102): the checks, the read of the row, the check of the new value.
AjusteEntra(r) ==
  \E a \in AjusteInputs :
    /\ req[r].pc = "idle"
    /\ LET rq == [req[r] EXCEPT !.op = "ajuste"]
           s == FindById(stock, <<a.id_sucursal, a.id_producto>>)
       IN IF a.id_producto = ""
            THEN req' = [req EXCEPT ![r] = Rechazo(rq, 400)]
          ELSE IF a.ajuste = 0
            THEN req' = [req EXCEPT ![r] = Rechazo(rq, 400)]
          ELSE IF ~s.existe
            THEN req' = [req EXCEPT ![r] = Rechazo(rq, 404)]
          ELSE IF s.stock_actual + a.ajuste < 0
            THEN req' = [req EXCEPT ![r] = Rechazo(rq, 400)]
          ELSE req' = [req EXCEPT ![r] =
                 [rq EXCEPT !.pc = "tx", !.leido = s,
                    !.mov = Movimiento(a.id_sucursal, a.id_producto,
                              IF a.ajuste >= 0 THEN "ENTRADA" ELSE "EGRESO",
                              Abs(a.ajuste))]]
    /\ UNCHANGED <<now, memIdem, memReservas, stock, faults>>

\* The write and the commit (lines 104-116, 159-164): the row gets the value
\* computed from what was read, and one movement row is inserted.  A
\* transaction that read no row and finds one at its write either updates it
\* or fails on the primary key and rolls back (409 through the handler of
\* DataIntegrityViolationException).
TxGuarda(r) ==
  /\ req[r].op \in {"movimiento", "ajuste"} /\ req[r].pc = "tx"
  /\ LET m == req[r].mov
         pk == <<m.id_sucursal, m.id_producto>>
         nuevo == req[r].leido.stock_actual + Delta(m.tipo_movimiento, m.cantidad)
         ok == [req[r] EXCEPT !.g_log = Append(@, m)]
     IN \/ /\ stock' = MapSet(stock, pk, nuevo)
           /\ req' = [req EXCEPT ![r] =
                Finish(ok, Resp(IF req[r].op = "ajuste" THEN 200 ELSE 201,
                                BodyBase))]
        \/ /\ ~req[r].leido.existe /\ pk \in DOMAIN stock
           /\ stock' = stock
           /\ req' = [req EXCEPT ![r] = Rechazo(req[r], 409)]
  /\ UNCHANGED <<now, memIdem, memReservas, faults>>

\* Date.now() moves on.
Tick ==
  /\ now < MaxClock
  /\ now' = now + 1
  /\ UNCHANGED <<memIdem, memReservas, stock, req, faults>>

Init ==
  /\ now = 0
  /\ memIdem = <<>>
  /\ memReservas = <<>>
  /\ stock = StockInicial
  /\ req = [r \in Reqs |-> ReqIdle]
  /\ faults = 0

ReservaNext ==
  \/ \E r \in Reqs : ReservaArrive(r)
  \/ \E r \in Reqs : ReservaFetchOk(r)
  \/ \E r \in Reqs : ReservaStockOk(r)
  \/ \E r \in Reqs : ReservaFail(r)
  \/ Tick

SpecReserva == Init /\ [][ReservaNext]_vars

DispNext ==
  \/ \E r \in Reqs : DispArrive(r)
  \/ \E r \in Reqs : DispFetchOk(r)
  \/ \E r \in Reqs : DispStockOk(r)
  \/ \E r \in Reqs : DispReadFail(r)
  \/ \E r \in Reqs : DispEgress(r)
  \/ \E r \in Reqs : DispEgressFault(r)
  \/ \E r \in Reqs : DispCompensate(r)
  \/ \E r \in Reqs : DispCompensateFault(r)
  \/ \E r \in Reqs : DispRecordOk(r)
  \/ \E r \in Reqs : DispRecordFail(r)
  \/ Tick

SpecDisp == Init /\ [][DispNext]_vars

\* One step of the saga of request r past its entry: the answer of the
\* downstream call it waits for is taken up, or the call times out.
DispPaso(r) ==
  \/ DispFetchOk(r) \/ DispStockOk(r) \/ DispReadFail(r)
  \/ DispEgress(r) \/ DispEgressFault(r)
  \/ DispCompensate(r) \/ DispCompensateFault(r)
  \/ DispRecordOk(r) \/ DispRecordFail(r)

DispVivaNext ==
  \/ DispArrive("a")
  \/ DispPaso("a")
  \/ Desconexion("a")
  \/ InventarioMovimiento

\* One saga execution whose caller may hang up, while other clients move the
\* ledger's stock, under the assumption that every downstream call returns
\* or times out (the client's timeout bounds each call) and that the event
\* loop then runs the continuation.
SpecDispViva == Init /\ [][DispVivaNext]_vars /\ WF_vars(DispPaso("a"))

ReadyNext ==
  \/ \E r \in Reqs : ReadyArrive(r)
  \/ \E r \in Reqs : ReadyProbeOk(r)
  \/ \E r \in Reqs : ReadyProbeFail(r)

\* GET /readyz alone.
SpecReady == Init /\ [][ReadyNext]_vars

DisponibilidadNext ==
  \/ \E r \in Reqs : DispoArrive(r)
  \/ \E r \in Reqs : DispoCatalogOk(r)
  \/ \E r \in Reqs : DispoStockOk(r)
  \/ \E r \in Reqs : DispoFail(r)

ValidacionNext ==
  \/ \E r \in Reqs : ValArrive(r)
  \/ \E r \in Reqs : ValFetchOk(r)
  \/ \E r \in Reqs : ValStockOk(r)
  \/ \E r \in Reqs : ValFail(r)
  \/ \E r \in Reqs : VcnArrive(r)
  \/ \E r \in Reqs : VcnFetchOk(r)
  \/ \E r \in Reqs : VcnStockOk(r)
  \/ \E r \in Reqs : VcnFail(r)

\* Pre-validation while other clients move the ledger's stock.
SpecValidacion == Init /\ [][ValidacionNext \/ InventarioMovimiento]_vars

\* The handlers that only read: readiness, availability, pre-validation.
LecturaNext == ReadyNext \/ DisponibilidadNext \/ ValidacionNext

SpecLectura == Init /\ [][LecturaNext]_vars

\* Every handler of server.js, on a ledger nobody else moves.
SpecCoordinador == Init /\ [][ReservaNext \/ LecturaNext]_vars

InventarioNext ==
  \/ \E r \in Reqs : MovimientoEntra(r)
  \/ \E r \in Reqs : AjusteEntra(r)
  \/ \E r \in Reqs : TxGuarda(r)

\* The ledger alone, serving two concurrent transactions.
SpecInventario == Init /\ [][InventarioNext]_vars

Next == ReservaNext \/ DispNext

Spec == Init /\ [][Next]_vars

\* =====================================================================
\*                              Properties
\* =====================================================================
IsDisp(r) == req[r].op = "dispensar"
IsReserva(r) == req[r].op = "reserva"
Done(r) == req[r].pc = "done"
Lineas(r) == 1 .. Len(req[r].detalle)

\* The request ran the saga itself (it was not answered from the cache).
Ejecucion(r) == IsDisp(r) /\ ~req[r].g_replay

\* The request issued at least one ledger-mutating call.
Muto(r) == req[r].g_calls # <<>>

IsEgresoOk(c) == c.mov.tipo_movimiento = "EGRESO" /\ c.ok
IsEntrada(c) == c.mov.tipo_movimiento = "ENTRADA"
EgresosOk(r) == SelectSeq(req[r].g_calls, IsEgresoOk)
Comps(r) == SelectSeq(req[r].g_calls, IsEntrada)

\* An egress call of the request did not succeed.
EgressFailed(r) ==
  \E n \in 1 .. Len(req[r].g_calls) :
    req[r].g_calls[n].mov.tipo_movimiento = "EGRESO" /\ ~req[r].g_calls[n].ok

RECURSIVE SumDelta(_, _)
\* The ledger's stock change at row pk over the calls cs.
SumDelta(cs, pk) ==
  IF cs = <<>> THEN 0
  ELSE (IF <<Head(cs).mov.id_sucursal, Head(cs).mov.id_producto>> = pk
          THEN Head(cs).delta ELSE 0) + SumDelta(Tail(cs), pk)

Net(r, pk) == SumDelta(req[r].g_calls, pk)
Rows == Sucursales \X Productos

\* The ledger applied every compensating increase of the request, and applied
\* no decrease that the saga saw fail (no timed-out egress was applied).
Reversed(r) ==
  \A n \in 1 .. Len(req[r].g_calls) :
    IF IsEntrada(req[r].g_calls[n])
      THEN req[r].g_calls[n].aplicado
      ELSE req[r].g_calls[n].aplicado = req[r].g_calls[n].ok

\* ---------------------------------------------------------------- C1
\* C1 (as claimed): among the dispense requests that carry the same
\* idempotency key within the TTL window, at most one issues ledger
\* mutations, under any interleaving.
C1_AtMostOneExecutionPerKey ==
  now <= IDEM_TTL_MS =>
    \A r1 \in Reqs, r2 \in Reqs :
      (r1 # r2 /\ IsDisp(r1) /\ IsDisp(r2)
         /\ req[r1].idem # "" /\ req[r1].idem = req[r2].idem)
      => ~(Muto(r1) /\ Muto(r2))

\* ---------------------------------------------------------------- C2
\* C2: when the egress of line k fails, one compensating ENTRADA with the same
\* location, product and quantity has been issued for each egress 1..k-1 the
\* saga applied, all of them before the DOWNSTREAM_ERROR answer.
C2_CompensatedBeforeError ==
  \A r \in Reqs :
    (IsDisp(r) /\ EgressFailed(r)) =>
      /\ req[r].pc = "comp" => req[r].res = NoRes
      /\ req[r].res # NoRes =>
           /\ req[r].res.status = 502
           /\ req[r].res.body.code = "DOWNSTREAM_ERROR"
           /\ Len(Comps(r)) = Len(EgresosOk(r))
           /\ \A n \in 1 .. Len(EgresosOk(r)) :
                Comps(r)[n].mov =
                  [EgresosOk(r)[n].mov EXCEPT !.tipo_movimiento = "ENTRADA"]

C2_Witness ==
  \E r \in Reqs :
    /\ IsDisp(r) /\ Done(r) /\ EgressFailed(r)
    /\ Len(EgresosOk(r)) >= 1
    /\ req[r].res.status = 502

RECURSIVE ShortFrom(_, _)
\* The shortfall entries of the lines n.. whose availability, as read, was
\* below the requested quantity, in line order.
ShortFrom(r, n) ==
  IF n > Len(req[r].g_disp) THEN <<>>
  ELSE (IF req[r].g_disp[n] < req[r].detalle[n].cantidad
          THEN <<Faltante(req[r].detalle[n], req[r].g_disp[n])>> ELSE <<>>)
       \o ShortFrom(r, n + 1)

Verified(r) == Len(req[r].g_disp) = Len(req[r].detalle) /\ Len(req[r].detalle) > 0

C4_State(r) ==
  Ejecucion(r) =>
    /\ Muto(r) => (Verified(r) /\ ShortFrom(r, 1) = <<>>)
    /\ (Done(r) /\ Verified(r)) =>
         /\ req[r].res.status = 409 <=> ShortFrom(r, 1) # <<>>
         /\ req[r].res.status = 409 =>
              /\ req[r].res.body.code = "STOCK_INSUFICIENTE"
              /\ req[r].res.body.details = ShortFrom(r, 1)
              /\ ~Muto(r)

\* The availability read for a line is the ledger's stock of that product at
\* the prescription's own location.
C4_Read(r) ==
  (IsDisp(r)' /\ Len(req[r].g_disp') = Len(req[r].g_disp) + 1) =>
    LET n == Len(req[r].g_disp')
    IN req[r].g_disp'[n] =
         StockAt(stock, <<Recetas[req[r].id].id_sucursal,
                          Recetas[req[r].id].detalle[n].id_producto>>)

\* C4: no egress before every line is verified at the prescription's own
\* location; a shortfall on any line rejects the dispense with
\* STOCK_INSUFICIENTE listing exactly the short lines, with no ledger mutation.
C4_VerifyAllThenAllOrNothing ==
  [][\A r \in Reqs : C4_Read(r) /\ C4_State(r)']_vars

C4_Witness ==
  \E r \in Reqs :
    /\ Ejecucion(r) /\ Done(r) /\ req[r].res.status = 409
    /\ Len(req[r].res.body.details) = 1 /\ Len(req[r].detalle) = 2
    /\ req[r].res.body.details[1].id_producto = "PROD-2"
    /\ ~Muto(r)

\* ---------------------------------------------------------------- C5
Exito(r) == req[r].res.status = 200 /\ req[r].res.body.estado_final = "DISPENSADA"

\* The ledger decreased the stock of every line by its quantity and the
\* dispensation record was created.
Commit(r) ==
  /\ Len(req[r].detalle) > 0
  /\ \A n \in Lineas(r) :
       \E k \in 1 .. Len(req[r].g_calls) :
         /\ req[r].g_calls[k].mov = Egreso(req[r].id_sucursal, req[r].detalle[n])
         /\ req[r].g_calls[k].ok
         /\ req[r].g_calls[k].delta = -req[r].detalle[n].cantidad
  /\ Len(req[r].g_records) = 1

\* C5: a saga answers success (estado_final = DISPENSADA) only if every
\* line's egress succeeded and the dispensation record was created; a
\* rejected or failed execution answers no success.
C5_SuccessOnlyIfCommitted ==
  \A r \in Reqs :
    (Ejecucion(r) /\ Done(r)) =>
      /\ Exito(r) => Commit(r)
      /\ ~Commit(r) => (req[r].res.status # 200 /\ ~req[r].res.body.ok)

C5_Witness ==
  \E r \in Reqs : Ejecucion(r) /\ Done(r) /\ Exito(r) /\ Len(req[r].detalle) = 2

\* ---------------------------------------------------------------- C6
\* C6 (as claimed): an idempotency record, once written, keeps its result
\* and its timestamp until it has expired.
C6_NeverOverwrittenBeforeExpiry ==
  [][\A k \in DOMAIN memIdem :
       ~IdemExpired(memIdem[k], now) =>
         (k \in DOMAIN memIdem' /\ memIdem'[k] = memIdem[k])]_vars

\* ---------------------------------------------------------------- C7
\* The step in which request r is answered.
Answers(r) == req[r].pc # "done" /\ req'[r].pc = "done"

\* C7 (as claimed): a request with an idempotency key that ends in
\* STOCK_INSUFICIENTE or DOWNSTREAM_ERROR leaves that outcome stored under
\* its key.
C7_FailureCachedUnderKey ==
  [][\A r \in Reqs :
       (Answers(r) /\ ~req'[r].g_replay /\ req'[r].idem # ""
          /\ req'[r].res.status \in {409, 502})
       => /\ req'[r].idem \in DOMAIN memIdem'
          /\ memIdem'[req'[r].idem].result = req'[r].res.body]_vars

\* ---------------------------------------------------------------- C8
\* The step in which request r passes the idempotency gate with key k.
Lookup(r, k) ==
  /\ req[r].pc = "idle" /\ req'[r].pc # "idle"
  /\ req'[r].idem = k /\ req'[r].id # ""

\* C8: get(key) returns the stored result iff there is an entry whose age does
\* not exceed the TTL, and nothing otherwise; an entry leaves the cache only
\* by a lookup of its key that finds it expired, and such a lookup removes it.
C8_GetWithinTTL ==
  [][\A k \in Keys :
       /\ \A r \in Reqs :
            Lookup(r, k) =>
              /\ req'[r].g_replay <=>
                   (k \in DOMAIN memIdem /\ now - memIdem[k].ts <= IDEM_TTL_MS)
              /\ req'[r].g_replay =>
                   (k \in DOMAIN memIdem
                      /\ req'[r].res.body = memIdem[k].result)
              /\ (k \in DOMAIN memIdem /\ now - memIdem[k].ts > IDEM_TTL_MS)
                   => k \notin DOMAIN memIdem'
       /\ (k \in DOMAIN memIdem /\ k \notin DOMAIN memIdem') =>
            /\ now - memIdem[k].ts > IDEM_TTL_MS
            /\ \E r \in Reqs : Lookup(r, k)]_vars

\* A request was answered from an entry aged exactly the TTL.
C8_Witness ==
  \E r \in Reqs :
    /\ Done(r) /\ req[r].g_replay
    /\ req[r].idem \in DOMAIN memIdem
    /\ now - memIdem[req[r].idem].ts = IDEM_TTL_MS

\* ---------------------------------------------------------------- C9
\* The step writes the reservation record of prescription id.
ReservaWritten(id) ==
  /\ id \in DOMAIN memReservas'
  /\ id \notin DOMAIN memReservas \/ memReservas'[id] # memReservas[id]

\* C9: a reservation created at time now for P is found by a lookup up to
\* now + RESERVA_TTL_MS, and a later lookup finds what it finds when no
\* reservation was ever created; only a new reservation changes a record.
C9_ReservationExpires ==
  [][/\ \A id \in RecetaIds :
          ReservaWritten(id) =>
            \A t \in now .. (MaxClock + IDEM_TTL_MS) :
              ReservaGet(memReservas', id, t) =
                IF t > now + RESERVA_TTL_MS
                  THEN ReservaGet(<<>>, id, t)
                  ELSE {Recetas[id].detalle}
     /\ \A id \in DOMAIN memReservas : id \in DOMAIN memReservas'
     /\ memReservas' # memReservas =>
          \E r \in Reqs : Answers(r) /\ IsReserva(r)'
              /\ req'[r].res.status = 200 /\ ~req'[r].g_replay]_vars

\* A reservation past its expiry time: a lookup now finds nothing.
C9_Witness ==
  \E id \in DOMAIN memReservas :
    /\ now > memReservas[id].vence
    /\ ReservaGet(memReservas, id, now) = {}

\* --------------------------------------------------------------- C10
\* C10: POST /reserva-stock leaves the ledger alone and issues no mutating
\* call; a dispense neither reads nor writes the reservation store: the
\* availability it verifies is the ledger's own, and it is rejected with
\* STOCK_INSUFICIENTE exactly when the ledger was short, whatever is reserved.
C10_SoftHold ==
  [][\A r \in Reqs :
       /\ (IsReserva(r)' /\ req'[r] # req[r]) =>
            (stock' = stock /\ req'[r].g_calls = <<>>)
       /\ (IsDisp(r)' /\ req'[r] # req[r]) => memReservas' = memReservas
       /\ C4_Read(r)
       /\ (Ejecucion(r)' /\ Done(r)' /\ Verified(r)') =>
            (req'[r].res.status = 409 <=> ShortFrom(r, 1)' # <<>>)]_vars

\* A prescription is dispensed while a live reservation of another request
\* holds the same prescription.
C10_Witness ==
  \E r \in Reqs :
    /\ Ejecucion(r) /\ Done(r) /\ Exito(r)
    /\ req[r].id \in DOMAIN memReservas
    /\ now <= memReservas[req[r].id].vence

\* --------------------------------------------------------------- C11
IsReady(r) == req[r].op = "readyz"

\* C11: GET /readyz answers 200 {status: ready} exactly when all three probes
\* succeeded, and 503 DOWNSTREAM_UNAVAILABLE exactly when some probe failed or
\* timed out, whatever the other two did and in whatever order they ended.
C11_ReadyIffAllProbes ==
  \A r \in Reqs :
    IsReady(r) =>
      /\ (\A n \in 1 .. 3 : req[r].probes[n] = "fulfilled")
           <=> (Done(r) /\ req[r].res.status = 200
                  /\ req[r].res.body.status = "ready")
      /\ (\E n \in 1 .. 3 : req[r].probes[n] = "rejected")
           <=> (Done(r) /\ req[r].res.status = 503
                  /\ req[r].res.body.code = "DOWNSTREAM_UNAVAILABLE")
      /\ Done(r) => req[r].res.status \in {200, 503}

\* Not ready although two probes succeeded: the first one failed.
C11_Witness ==
  \E r \in Reqs :
    /\ IsReady(r) /\ Done(r) /\ req[r].res.status = 503
    /\ req[r].probes = <<"rejected", "fulfilled", "fulfilled">>

\* --------------------------------------------------------------- C12
\* The request got its prescription and answered by itself.
Fetched(r) ==
  /\ req[r].op \in {"reserva", "validar", "validacion"}
  /\ Done(r) /\ ~req[r].g_replay /\ req[r].id # ""
  /\ req[r].res.status # 502

\* C12 (as claimed): a prescription with zero line items is answered with a
\* validation failure and with no success result.
C12_ZeroLinesIsValidationFailure ==
  \A r \in Reqs :
    (Fetched(r) /\ Len(Recetas[req[r].id].detalle) = 0) =>
      /\ req[r].res.body.code = "VALIDATION_ERROR"
      /\ req[r].res.status \notin {200, 207}
      /\ ~req[r].res.body.ok

\* --------------------------------------------------------------- C13
\* The call at position k of the request's outbound calls went out again.
Reenviado(r, k) ==
  \E j \in 1 .. Len(req[r].g_envios) : j # k /\ req[r].g_envios[j] = req[r].g_envios[k]

\* C13 (as claimed): a read that fails at the transport is sent once more
\* before the failure is surfaced, and no mutating call is sent twice.
C13_ReadRetriedOnce ==
  \A r \in Reqs :
    /\ (Done(r) /\ req[r].res.status = 502 /\ req[r].err \in Transporte) =>
         \E k \in 1 .. Len(req[r].g_envios) :
           req[r].g_envios[k].metodo = "GET" /\ Reenviado(r, k)
    /\ \A k \in 1 .. Len(req[r].g_envios) :
         req[r].g_envios[k].metodo # "GET" => ~Reenviado(r, k)

\* --------------------------------------------------------------- C14
\* The request entered a handler that derives a correlation id.
ConCid(r) == req[r].op \in {"readyz", "disponibilidad", "validar", "validacion"}

\* C14: the correlation id of a request is its X-Correlation-Id header when it
\* has one and a generated value otherwise; every downstream call of the
\* request carries it; two requests share an id only if both sent the same
\* header.
C14_OneCorrelationId ==
  \A r \in Reqs :
    ConCid(r) =>
      /\ req[r].header # "" => req[r].cid = req[r].header
      /\ req[r].header = "" => (req[r].cid # "" /\ req[r].cid \notin HeaderInputs)
      /\ \A n \in 1 .. Len(req[r].g_envios) : req[r].g_envios[n].cid = req[r].cid
      /\ \A q \in Reqs \ {r} :
           (ConCid(q) /\ req[q].cid = req[r].cid) =>
             (req[q].header # "" /\ req[q].header = req[r].header)

\* Two requests in flight without the header, each with calls sent.
C14_Witness ==
  \E r \in Reqs, q \in Reqs :
    /\ r # q /\ ConCid(r) /\ ConCid(q)
    /\ req[r].header = "" /\ req[q].header = ""
    /\ ~Done(r) /\ ~Done(q)
    /\ Len(req[r].g_envios) >= 3 /\ Len(req[q].g_envios) >= 3

\* --------------------------------------------------------------- C15
CodigosDeError ==
  {"VALIDATION_ERROR", "STOCK_INSUFICIENTE", "DOWNSTREAM_UNAVAILABLE",
   "DOWNSTREAM_ERROR"}

\* C15 (as claimed): every error response carries the correlation id of its
\* request, and a DOWNSTREAM_ERROR carries the raw failure as well.
C15_ErrorsCarryCorrelationId ==
  \A r \in Reqs :
    (ConCid(r) /\ Done(r) /\ req[r].res.body.code \in CodigosDeError) =>
      /\ req[r].res.body.correlation_id = req[r].cid
      /\ req[r].res.body.code = "DOWNSTREAM_ERROR" =>
           (req[r].res.body.error # "" /\ req[r].res.body.error = req[r].err)

\* --------------------------------------------------------------- C16
EsValidationError(rq) == rq.pc = "done" /\ rq.res.body.code = "VALIDATION_ERROR"

\* C16: a request answered with VALIDATION_ERROR has sent no downstream call,
\* and the step that answers it leaves the idempotency cache and the
\* reservation store as they were.
C16_ValidationBeforeAnything ==
  [][\A r \in Reqs :
       (Answers(r) /\ EsValidationError(req'[r])) =>
         /\ req[r].pc = "idle"
         /\ req'[r].g_envios = <<>> /\ req'[r].g_reads = 0
         /\ req'[r].g_calls = <<>>
         /\ memIdem' = memIdem /\ memReservas' = memReservas
         /\ \/ req'[r].op \in {"reserva", "validar"} /\ req'[r].id = ""
            \/ req'[r].op = "disponibilidad" /\ req'[r].distrito = ""
            \/ req'[r].op = "disponibilidad" /\ req'[r].producto = ""
                 /\ req'[r].busqueda = ""]_vars

\* POST /reserva-stock without id_receta, under a key whose record has expired
\* and is still in the cache.
C16_Witness ==
  \E r \in Reqs :
    /\ IsReserva(r) /\ EsValidationError(req[r])
    /\ req[r].idem \in DOMAIN memIdem
    /\ IdemExpired(memIdem[req[r].idem], now)

\* --------------------------------------------------------------- C17
IsValidar(r) == req[r].op = "validar"
IsValidacion(r) == req[r].op = "validacion"
Respondida(r) == Done(r) /\ req[r].res.status \in {200, 207}

\* The stock of product p at the branches sucs, straight from the table.
EnLedger(st, p, sucs) ==
  LET en(suc) == IF suc \in sucs THEN StockAt(st, <<suc, p>>) ELSE 0
  IN en(1) + en(2)

\* The stock of the rows st, added by position.
TotalFilas(st) ==
  LET f[k \in 0 .. Len(st)] == IF k = 0 THEN 0 ELSE f[k - 1] + st[k].stock_actual
  IN f[Len(st)]

\* The step fills line n of request r with the rows of its stock query.
LineaLeida(r, n) ==
  /\ req[r].pc = "lines" /\ ~req[r].filas[n].listo /\ req'[r].filas[n].listo

\* C17: the rows a line gets are those of its product, at the prescription's
\* location when the query names it and at every location otherwise; the
\* available quantity reported is the sum of their stock, and the line counts
\* as satisfiable exactly when that sum is at least the requested quantity.
C17_AvailabilityIsSum ==
  [][\A r \in Reqs :
       /\ \A n \in 1 .. Len(req[r].filas) :
            LineaLeida(r, n) =>
              LET st == req'[r].filas[n].st
                  p == Recetas[req[r].id].detalle[n].id_producto
                  sucs == IF IsValidar(r) THEN {Recetas[req[r].id].id_sucursal}
                                          ELSE Sucursales
              IN /\ \A k \in 1 .. Len(st) :
                      st[k].id_producto = p /\ st[k].id_sucursal \in sucs
                 /\ TotalFilas(st) = EnLedger(stock, p, sucs)
       /\ ((IsValidar(r) \/ IsValidacion(r))' /\ Respondida(r)') =>
            LET items == req'[r].res.body.items
                det == Recetas[req'[r].id].detalle
            IN /\ Len(items) = Len(det)
               /\ \A n \in 1 .. Len(det) :
                    /\ items[n].id_producto = det[n].id_producto
                    /\ items[n].solicitado = det[n].cantidad
                    /\ items[n].disponible = TotalFilas(req'[r].filas[n].st)
                    /\ IsValidar(r)' =>
                         (items[n].ok <=> items[n].disponible >= det[n].cantidad)
               /\ IsValidacion(r)' =>
                    (req'[r].res.body.estado_sugerido = "VALIDADA" <=>
                       \A n \in 1 .. Len(det) :
                         items[n].disponible >= det[n].cantidad)]_vars

\* A line summed over two branches, answered next to a request that found a
\* line short at the prescription's own branch.
C17_Witness ==
  \E r \in Reqs, q \in Reqs :
    /\ IsValidacion(r) /\ Respondida(r)
    /\ \E n \in 1 .. Len(req[r].filas) :
         Len(req[r].filas[n].st) = 2 /\ req[r].res.body.items[n].disponible = 12
    /\ IsValidar(q) /\ Respondida(q)
    /\ \E n \in 1 .. Len(req[q].filas) : ~req[q].res.body.items[n].ok

\* --------------------------------------------------------------- C18
\* The positions of the rows st whose own stock meets the quantity.
Alcanzan(st, cantidad) == {k \in 1 .. Len(st) : st[k].stock_actual >= cantidad}

\* C18: with no location given, the suggested location of a line is that of
\* the first row, in the order the ledger returned them, whose own stock is at
\* least the requested quantity; it is absent exactly when no row meets the
\* quantity by itself, also when the sum over the rows does.
C18_FirstFit ==
  \A r \in Reqs :
    (IsValidacion(r) /\ Respondida(r)) =>
      \A n \in 1 .. Len(req[r].detalle) :
        LET st == req[r].filas[n].st
            ks == Alcanzan(st, req[r].detalle[n].cantidad)
            sugerida == req[r].res.body.items[n].id_sucursal_sugerida
        IN /\ sugerida = 0 <=> ks = {}
           /\ ks # {} =>
                \E k \in ks : /\ \A j \in ks : k <= j
                              /\ sugerida = st[k].id_sucursal

\* A line met by the sum over two branches and by neither alone, and a line
\* met by both branches with branch 2 returned first.
C18_Witness ==
  \E r \in Reqs, q \in Reqs :
    /\ IsValidacion(r) /\ Respondida(r)
    /\ \E n \in 1 .. Len(req[r].detalle) :
         /\ req[r].res.body.items[n].id_sucursal_sugerida = 0
         /\ req[r].res.body.items[n].disponible >= req[r].detalle[n].cantidad
    /\ IsValidacion(q) /\ Respondida(q)
    /\ \E n \in 1 .. Len(req[q].detalle) :
         /\ Alcanzan(req[q].filas[n].st, req[q].detalle[n].cantidad) = {1, 2}
         /\ req[q].res.body.items[n].id_sucursal_sugerida = 2

C20_R2Rechazada ==
  \A r \in Reqs :
    ( /\ IsValidar(r) \/ IsValidacion(r)
      /\ Respondida(r) /\ req[r].id = "R2"
      /\ req[r].res.body.items[1].disponible = 5
      /\ req[r].res.body.items[2].disponible = 2 )
    => req[r].res.body.estado_sugerido = "RECHAZADA"

\* --------------------------------------------------------------- C21
\* The execution of r is past VERIFY_ALL_LINES: its first decrease was sent.
Aplicando(r) == IsDisp(r) /\ req[r].pc \in {"egress", "comp", "record"}

\* C21: every saga execution that has started applying egress mutations
\* reaches a terminal state (200 DISPENSADA or 502 failed), whether or not
\* its caller hung up, and a terminal state is never left or changed: no
\* execution stays in APPLY_EGRESS_SEQUENTIALLY or COMPENSATE forever.
C21_RunsToCompletion ==
  /\ \A r \in Reqs :
       Aplicando(r) ~> (Done(r) /\ req[r].res.status \in {200, 502})
  /\ [][\A r \in Reqs : Done(r) => (Done(r)' /\ req'[r].res = req[r].res)]_vars

\* A saga whose caller hung up during APPLY_EGRESS_SEQUENTIALLY failed an
\* egress, compensated and ended.
C21_Witness ==
  \E r \in Reqs :
    /\ IsDisp(r) /\ Done(r) /\ req[r].g_colgado
    /\ EgressFailed(r) /\ Comps(r) # <<>>
    /\ req[r].res.status = 502

\* --------------------------------------------------------------- C23
IsEgreso(c) == c.mov.tipo_movimiento = "EGRESO"
\* The decrease calls of the request, in the order they were issued.
Egresos(r) == SelectSeq(req[r].g_calls, IsEgreso)

\* The ledger-mutating calls of r so far are strictly sequential.
Secuencial(r) ==
  LET eg == Egresos(r)
      cp == Comps(r)
      ap == req[r].applied
  IN \* all decreases come before all compensating increases
     /\ req[r].g_calls = eg \o cp
     \* one decrease per line, in line order, each after the previous succeeded
     /\ Len(eg) <= Len(req[r].detalle)
     /\ \A n \in 1 .. Len(eg) :
          /\ eg[n].mov = Egreso(req[r].id_sucursal, req[r].detalle[n])
          /\ n < Len(eg) => eg[n].ok
     \* a success is in the AppliedMutation list before the next call
     /\ Len(ap) = Len(EgresosOk(r))
     /\ \A n \in 1 .. Len(ap) : eg[n].ok /\ ap[n] = eg[n].mov
     /\ req[r].pc = "egress" =>
          (req[r].i = Len(ap) + 1 /\ Len(eg) = Len(ap))
     \* compensating increases in apply order, after a failed decrease
     /\ Len(cp) <= Len(ap)
     /\ \A n \in 1 .. Len(cp) :
          /\ cp[n].mov.id_producto = ap[n].id_producto
          /\ cp[n].mov.id_sucursal = ap[n].id_sucursal
          /\ cp[n].mov.cantidad = ap[n].cantidad
     /\ cp # <<>> => EgressFailed(r)
     /\ req[r].pc = "comp" => req[r].j = Len(cp) + 1

\* C23: within one saga execution the ledger-mutating calls never overlap:
\* every step takes up the answer of at most one call; there is one decrease
\* per line in line order, the decrease of line i+1 is sent only after that of
\* line i succeeded and was appended to the AppliedMutation list; compensating
\* increases go one at a time in apply order.
C23_StrictlySequential ==
  [][\A r \in Reqs :
       Ejecucion(r)' =>
         /\ Len(req'[r].g_calls) <= Len(req[r].g_calls) + 1
         /\ Secuencial(r)']_vars

\* An execution applied two lines, saw the third decrease fail, and
\* compensated both in apply order.
C23_Witness ==
  \E r \in Reqs :
    /\ Ejecucion(r) /\ Done(r)
    /\ Len(req[r].applied) = 2 /\ Len(Egresos(r)) = 3
    /\ Len(Comps(r)) = 2
    /\ Comps(r)[1].mov.id_producto # Comps(r)[2].mov.id_producto

\* --------------------------------------------------------------- C24
\* C24: in COMPENSATE every step is one compensation attempt for the next
\* applied mutation, whether the attempt succeeds or fails, and none changes
\* the error; the execution ends with one attempt per mutation it applied
\* itself, and answers 502 with the error of the egress that failed.
C24_CompensationIsBestEffort ==
  [][\A r \in Reqs :
       (Ejecucion(r)' /\ req'[r] # req[r]) =>
         \* the failing egress sets the error
         /\ (req[r].pc = "egress" /\ EgressFailed(r)') =>
              /\ req'[r].err \in {"HTTP 400", "timeout"}
              /\ req'[r].pc \in {"comp", "done"}
              /\ req'[r].pc = "comp" <=> req[r].applied # <<>>
         \* a compensation step, failed or not, moves on to the next mutation
         /\ req[r].pc = "comp" =>
              /\ req'[r].err = req[r].err
              /\ req'[r].applied = req[r].applied
              /\ Len(Comps(r)') = Len(Comps(r)) + 1
              /\ Comps(r)'[req[r].j].mov = Compensacion(req[r].applied[req[r].j])
              /\ req'[r].pc = IF req[r].j < Len(req[r].applied)
                                THEN "comp" ELSE "done"
         \* the end: one attempt per applied mutation, the triggering error
         /\ (Done(r)' /\ EgressFailed(r)') =>
              /\ Len(Comps(r)') = Len(req'[r].applied)
              /\ \A n \in 1 .. Len(req'[r].applied) :
                   /\ Egresos(r)'[n].ok
                   /\ Egresos(r)'[n].mov = req'[r].applied[n]
                   /\ Comps(r)'[n].mov = Compensacion(req'[r].applied[n])
              /\ req'[r].res.status = 502
              /\ req'[r].res.body.code = "DOWNSTREAM_ERROR"
              /\ req'[r].res.body.error = req'[r].err
              /\ req'[r].err \in {"HTTP 400", "timeout"}]_vars

\* An execution applied two lines, the ledger rejected the third, the first
\* compensation failed and the second was still attempted and succeeded.
C24_Witness ==
  \E r \in Reqs :
    /\ Ejecucion(r) /\ Done(r) /\ EgressFailed(r)
    /\ Len(req[r].applied) = 2 /\ Len(Comps(r)) = 2
    /\ ~Comps(r)[1].ok /\ Comps(r)[2].ok
    /\ req[r].res.body.error = "HTTP 400"

\* --------------------------------------------------------------- C25
RECURSIVE SumLineas(_)
\* The sum of the quantities of a list of prescription lines.
SumLineas(ls) ==
  IF ls = <<>> THEN 0 ELSE Head(ls).cantidad + SumLineas(Tail(ls))

\* C25: an execution creates at most one dispensation record, only after the
\* decrease of every line was acknowledged, with a total equal to the sum of
\* the quantities of the applied lines, and then answers DISPENSADA with that
\* total; a rejected or failed execution creates none; for R1 (one line of
\* quantity 3) a success is one egress of 3 and a record with total 3.
C25_RecordOnceAfterAllEgress ==
  \A r \in Reqs :
    Ejecucion(r) =>
      /\ Len(req[r].g_records) <= 1
      /\ req[r].g_records # <<>> =>
           /\ Len(req[r].detalle) > 0
           /\ Len(EgresosOk(r)) = Len(req[r].detalle)
           /\ \A n \in Lineas(r) :
                EgresosOk(r)[n].mov =
                  Egreso(req[r].id_sucursal, req[r].detalle[n])
           /\ ~EgressFailed(r) /\ Comps(r) = <<>>
           /\ req[r].g_records[1].id_receta = req[r].id
           /\ req[r].g_records[1].cantidad_total = SumLineas(req[r].detalle)
           /\ Done(r) /\ req[r].res.status = 200
           /\ req[r].res.body.estado_final = "DISPENSADA"
           /\ req[r].res.body.cantidad_total = SumLineas(req[r].detalle)
      /\ (Done(r) /\ req[r].res.status # 200) => req[r].g_records = <<>>
      /\ EgressFailed(r) => req[r].g_records = <<>>
      /\ (Done(r) /\ req[r].res.status = 200) => Len(req[r].g_records) = 1
      /\ (Done(r) /\ req[r].res.status = 200 /\ req[r].id = "R1") =>
           /\ Len(req[r].g_calls) = 1
           /\ req[r].g_calls[1].mov = Movimiento(1, "PROD-1", "EGRESO", 3)
           /\ req[r].g_records[1].cantidad_total = 3

\* R1 was dispensed: one egress of 3, a record with total 3, DISPENSADA; and
\* another execution dispensed the three lines of R5 with a record of total 3.
C25_Witness ==
  \E r \in Reqs, q \in Reqs :
    /\ Ejecucion(r) /\ Done(r) /\ req[r].id = "R1"
    /\ req[r].res.body.estado_final = "DISPENSADA"
    /\ req[r].g_records = <<[id_receta |-> "R1", cantidad_total |-> 3]>>
    /\ Ejecucion(q) /\ Done(q) /\ req[q].id = "R5"
    /\ req[q].g_records = <<[id_receta |-> "R5", cantidad_total |-> 3]>>

\* --------------------------------------------------------------- C26
\* C26: the suggested outcome of an answered pre-validation is VALIDADA
\* exactly when every line's available quantity is at least its requested
\* quantity; otherwise it is PARCIAL when some line has an available quantity
\* above zero and RECHAZADA when every line has none; POST /receta/validar
\* answers 200 exactly when the outcome is VALIDADA and 207 otherwise.
C26_SuggestedOutcome ==
  \A r \in Reqs :
    ((IsValidar(r) \/ IsValidacion(r)) /\ Respondida(r)) =>
      LET items == req[r].res.body.items
          det == Recetas[req[r].id].detalle
          estado == req[r].res.body.estado_sugerido
          todas == \A n \in 1 .. Len(det) :
                     items[n].disponible >= det[n].cantidad
          alguna == \E n \in 1 .. Len(det) : items[n].disponible > 0
      IN /\ Len(items) = Len(det)
         /\ estado \in {"VALIDADA", "PARCIAL", "RECHAZADA"}
         /\ estado = "VALIDADA" <=> todas
         /\ ~todas => /\ estado = "PARCIAL" <=> alguna
                      /\ estado = "RECHAZADA" <=> ~alguna
         /\ IsValidar(r) =>
              /\ req[r].res.status = 200 <=> estado = "VALIDADA"
              /\ req[r].res.status = 207 <=> estado # "VALIDADA"
         /\ IsValidacion(r) => req[r].res.status = 200

\* One POST /receta/validar answered 207 RECHAZADA (its only line found no
\* stock) and another answered 207 PARCIAL.
C26_Witness ==
  \E r \in Reqs, q \in Reqs :
    /\ IsValidar(r) /\ Respondida(r) /\ req[r].res.status = 207
    /\ req[r].res.body.estado_sugerido = "RECHAZADA"
    /\ req[r].res.body.items[1].disponible = 0
    /\ IsValidar(q) /\ Respondida(q) /\ req[q].res.status = 207
    /\ req[q].res.body.estado_sugerido = "PARCIAL"

\* --------------------------------------------------------------- C27
\* The step is one of request r, a POST /reserva-stock.
PasoReserva(r) == IsReserva(r)' /\ req'[r] # req[r]

\* The step is the exit of r on the success path.
ReservaExito(r) ==
  Answers(r) /\ req'[r].res.status = 200 /\ ~req'[r].g_replay

\* The step is r's idempotency lookup and removes the expired record it found.
Purga(r) ==
  /\ req[r].pc = "idle" /\ req'[r].idem \in DOMAIN memIdem
  /\ now - memIdem[req'[r].idem].ts > IDEM_TTL_MS
  /\ memIdem' = MapDelete(memIdem, req'[r].idem)

\* C27 (as claimed): a request answered 400, 409 or 502 left both stores
\* exactly as they were in every one of its steps.
C27_FailureLeavesStoresAsTheyWere ==
  [][\A r \in Reqs :
       (PasoReserva(r) /\ ~ReservaExito(r)) =>
         /\ Answers(r) => /\ memIdem' = memIdem /\ memReservas' = memReservas
         /\ (Answers(r) /\ req'[r].res.status \in {400, 409, 502}) =>
              ~req'[r].g_purga]_vars

\* C27: POST /reserva-stock writes to the reservation store and to the
\* idempotency cache only in the step that answers 200 on the success path,
\* and then only when every line's availability at the prescription's
\* location was at least its quantity when it was read; every other step
\* leaves the reservation store as it is and writes nothing to the cache, the
\* one change being that the lookup at the gate removes an expired record of
\* the request's own key; a 400 is answered before the gate.
C27_WritesOnlyOnSuccess ==
  [][\A r \in Reqs :
       PasoReserva(r) =>
         /\ ~ReservaExito(r) =>
              /\ memReservas' = memReservas
              /\ memIdem' = memIdem \/ Purga(r)
         /\ (Answers(r) /\ req'[r].res.status = 400) => memIdem' = memIdem
         /\ ReservaExito(r) =>
              /\ memReservas' =
                   MapSet(memReservas, req'[r].id,
                          [vence |-> now + RESERVA_TTL_MS,
                           items |-> Recetas[req'[r].id].detalle])
              /\ memIdem' =
                   IF req'[r].idem = "" THEN memIdem
                   ELSE MapSet(memIdem, req'[r].idem,
                               [ts |-> now, result |-> req'[r].res.body])
              /\ Len(req'[r].g_disp) = Len(req'[r].detalle)
              /\ \A n \in 1 .. Len(req'[r].detalle) :
                   req'[r].g_disp[n] >= req'[r].detalle[n].cantidad]_vars

\* A request whose lookup removed the expired record of its key was answered
\* 409, while a reservation written by a two-line success is in the store.
C27_Witness ==
  \E r \in Reqs :
    /\ IsReserva(r) /\ Done(r) /\ req[r].g_purga
    /\ req[r].res.status = 409
    /\ req[r].idem \notin DOMAIN memIdem
    /\ "R3" \in DOMAIN memReservas

\* --------------------------------------------------------------- C28
\* The step is the arrival of a POST /reserva-stock that carries key k and an
\* id_receta while the cache holds an unexpired record of k.
Replay(r, k) ==
  /\ IsReserva(r)' /\ Lookup(r, k)
  /\ k \in DOMAIN memIdem /\ now - memIdem[k].ts <= IDEM_TTL_MS

\* C28: a POST /reserva-stock whose key has an unexpired record is answered
\* in its first step with the cached result, 200, without a downstream call
\* and without a change to the reservation store, the idempotency cache or
\* the ledger, whatever id_receta it carries.
C28_ReplayTouchesNothing ==
  [][\A r \in Reqs : \A k \in Keys :
       Replay(r, k) =>
         /\ Done(r)' /\ req'[r].g_replay
         /\ req'[r].res = Resp(200, memIdem[k].result)
         /\ req'[r].g_reads = 0 /\ req'[r].g_disp = <<>>
         /\ memIdem' = memIdem
         /\ memReservas' = memReservas
         /\ stock' = stock]_vars

\* A replay answered a request for another prescription than the one the
\* record was written for, after that prescription's reservation had expired.
C28_Witness ==
  \E r \in Reqs :
    /\ IsReserva(r) /\ Done(r) /\ req[r].g_replay
    /\ req[r].id # req[r].res.body.id_receta
    /\ req[r].res.body.id_receta \in DOMAIN memReservas
    /\ now > memReservas[req[r].res.body.id_receta].vence
    /\ req[r].id \notin DOMAIN memReservas

\* ------------------------------------------------ the ledger: C22, C29, C30
IsTx(r) == req[r].op \in {"movimiento", "ajuste"}

RECURSIVE SumMov(_, _, _)
\* The quantity the movement rows ms record for row pk with the given type.
SumMov(ms, pk, tipo) ==
  IF ms = <<>> THEN 0
  ELSE (IF /\ <<Head(ms).id_sucursal, Head(ms).id_producto>> = pk
           /\ Head(ms).tipo_movimiento = tipo
          THEN Head(ms).cantidad ELSE 0)
       + SumMov(Tail(ms), pk, tipo)

RECURSIVE Registrado(_, _, _)
\* The same over the movement rows of the transactions rs: the movement log.
Registrado(rs, pk, tipo) ==
  IF rs = {} THEN 0
  ELSE LET r == CHOOSE x \in rs : TRUE
       IN SumMov(req[r].g_log, pk, tipo) + Registrado(rs \ {r}, pk, tipo)

\* --------------------------------------------------------------- C22
\* C22 (as claimed): under any interleaving of concurrent movements and
\* adjustments, no stock is negative and the egresses the ledger accepted for
\* a row never add up to more than what the row held and received.
C22_NoOverselling ==
  \A pk \in Rows :
    /\ StockAt(stock, pk) >= 0
    /\ Registrado(Reqs, pk, "EGRESO")
         <= StockAt(StockInicial, pk) + Registrado(Reqs, pk, "ENTRADA")

\* --------------------------------------------------------------- C29
\* C29 (as claimed): once no transaction is in progress, the stock of every
\* row is its initial stock plus the recorded ENTRADA quantities minus the
\* recorded EGRESO quantities.
C29_NoLostUpdate ==
  (\A r \in Reqs : req[r].pc # "tx") =>
    \A pk \in Rows :
      StockAt(stock, pk) =
        StockAt(StockInicial, pk) + Registrado(Reqs, pk, "ENTRADA")
          - Registrado(Reqs, pk, "EGRESO")

\* --------------------------------------------------------------- C30
\* C30: a movement or adjustment the ledger rejects with 400 or 404 leaves
\* every stock row and the movement log as they were; only a body with all
\* its fields, a type ENTRADA or EGRESO, a quantity above zero, a row to take
\* from and a result not below zero gets as far as the write.
C30_RejectionChangesNothing ==
  [][\A r \in Reqs :
       /\ (IsTx(r)' /\ Answers(r) /\ req'[r].res.status \in {400, 404}) =>
            /\ stock' = stock
            /\ \A q \in Reqs : req'[q].g_log = req[q].g_log
            /\ req'[r].g_log = <<>>
       /\ (IsTx(r)' /\ req'[r].pc = "tx") =>
            LET m == req'[r].mov
            IN /\ m.id_producto # "" /\ m.id_sucursal \in Sucursales
               /\ m.tipo_movimiento \in {"ENTRADA", "EGRESO"}
               /\ m.cantidad > 0
               /\ req'[r].leido.existe \/ m.tipo_movimiento = "ENTRADA"
               /\ req'[r].leido.stock_actual
                    + Delta(m.tipo_movimiento, m.cantidad) >= 0
               /\ req'[r].g_log = <<>>]_vars

\* An EGRESO on a row that does not exist was answered 404 and an adjustment
\* was answered 400.
C30_Witness ==
  \E r \in Reqs, q \in Reqs :
    /\ req[r].op = "movimiento" /\ Done(r) /\ req[r].res.status = 404
    /\ req[q].op = "ajuste" /\ Done(q) /\ req[q].res.status = 400

=============================================================================
